---- MODULE Spec2Model ----
(***************************************************************************)
(* Playback coverage and quiz-gating engine of the video-mcq player        *)
(* (the player.js part of src/frontend/dashboard.js, lines 995-1915).      *)
(*                                                                         *)
(* Time is counted in units of 0.05 s, so that every threshold of the code *)
(* is an integer: 0.05 s = 1, 0.1 s = 2, 0.25 s = 5, 0.4 s = 8,            *)
(* 0.75 s = 15, 1.0 s = 20, 1.25 s = 25, 2.0 s = 40.                       *)
(* Points are counted in half points (a checkbox can score 0.5).           *)
(*                                                                         *)
(* The last part models the admin dashboard of the same file (lines        *)
(* 28-960): the key inputs, the wiring of the panels and the deletes.      *)
(***************************************************************************)
EXTENDS Integers, Sequences, FiniteSets, TLC

\* ------------------------------------------------------------------ bounds
\* duration of the video, in units
Dur == 50
\* number of seeks of the viewer in one session
MaxSeeks == 2
\* number of times an ended video is started again in one session
MaxReplays == 1
\* how far the playhead moves between two samples of tick (0.5 s)
PlayStep == 10
\* number of submission requests dispatched in one session
MaxRequests == 2
\* largest time given to addSegment in the specifications SegSpec and UnionSpec
MaxT == 12
\* duration of the long video of the specification PercentSpec (35 s), for
\* which 97 percent is reached with more than 1 s left
LongDur == 700
\* number of delete requests the dashboard sends in one page load
MaxDeletes == 2

\* -------------------------------------------------------- code constants
\* addSegment: const tol = 0.25
tol == 5
\* tick: jumpFwd = now > lastNow + 1.25
JumpFwd == 25
\* tick: jumpBack = now + 0.75 < lastNow
JumpBack == 15
\* tick: one-time bounce when now > lastNow + 2.0
WarnJump == 40
\* tick: now > cap + 0.4
CapSlack == 8
\* tick: seekTo(cap - 0.05)
CapBack == 1
\* tick: reviewMode ends when now >= reviewExitTime - 0.1
ReviewSlack == 2
\* tick / watchedPercent: remaining <= 1.0
CloseEnough == 20
\* tick / watchedPercent: coverage >= 97 %
CloseEnoughPct == 97

\* Infinity of nextGateTimeAfter: larger than every time of the model
Inf == 1000000

ID_KEY == "__viewer"

SCORABLE == {"mcq", "checkbox", "fib"}

Max2(a, b) == IF a >= b THEN a ELSE b
Min2(a, b) == IF a <= b THEN a ELSE b

\* ------------------------------------------------------------------- quiz
\* Items of a quiz, in declaration order.  "a" is the correct choice of an
\* mcq, "x" the accepted text of a fib.
\* i1 and i2 share a trigger time, i3 is declared last
ThreeItems ==
  << [id |-> "i1", type |-> "mcq",   t |-> 10],
     [id |-> "i2", type |-> "pause", t |-> 10],
     [id |-> "i3", type |-> "fib",   t |-> 30] >>
OneItem ==
  << [id |-> "i1", type |-> "mcq",   t |-> 10] >>
\* one item, due on the tick on which the coverage comes within 1 s of endAt
LateItem ==
  << [id |-> "i1", type |-> "mcq",   t |-> 20] >>
\* two items declared against the order of their trigger times
UnsortedItems ==
  << [id |-> "i1", type |-> "mcq",   t |-> 10],
     [id |-> "i2", type |-> "pause", t |-> 5] >>
\* a pause item before the trimmed end, an mcq item after the point at
\* which the coverage comes within 1 s of endAt
StaleItems ==
  << [id |-> "i1", type |-> "pause", t |-> 10],
     [id |-> "i2", type |-> "mcq",   t |-> 30] >>

\* the options of a checkbox item; "w" is never correct
Options == {"a", "b", "c", "w"}

\* one item of every type; the checkbox item has three correct options
MixedItems ==
  << [id |-> "i1", type |-> "checkbox", t |-> 10, correct |-> {"a", "b", "c"}],
     [id |-> "i2", type |-> "poll",     t |-> 10],
     [id |-> "i3", type |-> "fr",       t |-> 20],
     [id |-> "i4", type |-> "pause",    t |-> 20],
     [id |-> "i5", type |-> "mcq",      t |-> 30],
     [id |-> "i6", type |-> "fib",      t |-> 30] >>
\* a checkbox item with the given correct options
CheckboxItem(corr) ==
  << [id |-> "i1", type |-> "checkbox", t |-> 10, correct |-> corr] >>
\* no scorable item
UnscoredItems ==
  << [id |-> "i1", type |-> "poll",  t |-> 10],
     [id |-> "i2", type |-> "pause", t |-> 10] >>

ItemIds == {"i1", "i2", "i3", "i4", "i5", "i6"}

\* what the viewer can enter in an item overlay
McqInputs == {"", "a"}
FibInputs == {"x"}
\* the boxes the viewer can tick in a checkbox item, named by their letters
CheckboxInputs == {"", "a", "w", "ab", "aw", "bc", "abc", "abw", "abcw"}
\* the values of the ticked boxes
SelectionOf(input) ==
  CASE input = "a"    -> {"a"}
    [] input = "w"    -> {"w"}
    [] input = "ab"   -> {"a", "b"}
    [] input = "aw"   -> {"a", "w"}
    [] input = "bc"   -> {"b", "c"}
    [] input = "abc"  -> {"a", "b", "c"}
    [] input = "abw"  -> {"a", "b", "w"}
    [] input = "abcw" -> {"a", "b", "c", "w"}
    [] OTHER          -> {}
PollInputs == {"", "p"}
FrInputs == {"t"}
\* what the viewer can type in the identity overlay
ViewerInputs == {"", "v"}

\* the quiz documents a session can be started with
Quiz(items, id, cont, rev, wte, delay, endAt) ==
  [ items |-> items,
    requireIdentity |-> id, requireContinue |-> cont, reviewOnRewatch |-> rev,
    requireWatchToEnd |-> wte, feedbackDelaySeconds |-> delay, endAt |-> endAt ]

\* the quiz documents of the specification Spec
Quizzes ==
  { Quiz(ThreeItems, TRUE,  FALSE, TRUE,  FALSE, 0,  0),
    Quiz(ThreeItems, FALSE, TRUE,  TRUE,  TRUE,  0,  40),
    Quiz(ThreeItems, TRUE,  FALSE, FALSE, FALSE, 60, 40),
    Quiz(ThreeItems, FALSE, FALSE, FALSE, FALSE, 0,  0) }

\* the quiz documents of the specification SeekSpec
SeekQuizzes ==
  { Quiz(OneItem, FALSE, FALSE, TRUE,  TRUE, 0, 0),
    Quiz(OneItem, FALSE, TRUE,  FALSE, TRUE, 0, 0) }

\* the quiz documents of the specification WatchSpec: trimmed at endAt
WatchQuizzes ==
  { Quiz(OneItem,  TRUE,  FALSE, FALSE, FALSE, 0, 40),
    Quiz(LateItem, TRUE,  FALSE, FALSE, FALSE, 0, 40),
    Quiz(OneItem,  FALSE, TRUE,  FALSE, TRUE,  0, 40) }

\* the quiz documents of the specification ReviewSpec
ReviewQuizzes ==
  { Quiz(OneItem, FALSE, FALSE, TRUE,  FALSE, 0, 0),
    Quiz(OneItem, FALSE, FALSE, FALSE, FALSE, 0, 0) }

\* the quiz documents of the specification RejectSpec
RejectQuizzes ==
  { Quiz(StaleItems, TRUE,  FALSE, FALSE, FALSE, 0, 40),
    Quiz(StaleItems, TRUE,  TRUE,  FALSE, FALSE, 0, 40),
    Quiz(StaleItems, FALSE, FALSE, FALSE, FALSE, 0, 40) }

\* the quiz documents of the specification PercentSpec
PercentQuizzes ==
  { Quiz(OneItem, FALSE, FALSE, FALSE, FALSE, 0, 0),
    Quiz(OneItem, FALSE, FALSE, FALSE, FALSE, 0, 40) }

\* the quiz documents of the specification GradeSpec
GradeQuizzes ==
  { Quiz(MixedItems, FALSE, FALSE, FALSE, FALSE, 0, 0),
    Quiz(CheckboxItem({"a"}), TRUE, FALSE, FALSE, FALSE, 0, 0),
    Quiz(CheckboxItem({}), FALSE, FALSE, FALSE, FALSE, 0, 0),
    Quiz(UnscoredItems, FALSE, FALSE, FALSE, FALSE, 0, 0) }

\* the quiz documents of the specification ScenarioSpec: one mcq item, no
\* endAt, requireContinue false, without and with a feedback delay
ScenarioQuizzes ==
  { Quiz(OneItem, FALSE, FALSE, FALSE, FALSE, 0,  0),
    Quiz(OneItem, FALSE, FALSE, FALSE, FALSE, 60, 0) }

\* the quiz documents of the specification OrderSpec
OrderQuizzes ==
  { Quiz(UnsortedItems, FALSE, FALSE, TRUE,  FALSE, 0, 0),
    Quiz(UnsortedItems, FALSE, FALSE, FALSE, FALSE, 0, 0) }

Nonces == {"n1"}

VARIABLES
  quiz,             \* the quiz document, fetched once in boot
  pos, st,          \* the player: getCurrentTime(), getPlayerState()
  sampled,          \* a tick has sampled the position since it last advanced
  seeks,            \* number of seeks of the viewer so far
  replays,          \* number of restarts of the ended video so far
  overlayOpen, currentItem, watchedToEnd,
  answered,         \* Map id -> answer, without the __meta entry
  meta,             \* whether answered has the __meta entry
  reviewedThisPass, lastNow,
  reviewMode, peakTime, reviewExitTime,
  watching, segStart, segments, warnedSeekOnce,
  submitting, submittedOnce, ATTEMPT_NONCE,
  view,             \* what #choices/#prompt show: "none", "item", "review", "identity", "thanks"
  submitHidden, submitDisabled,   \* #submit: class hidden, attribute disabled
  contHidden,                     \* #continue: class hidden
  finishHidden, finishDisabled,   \* #finish: class hidden, attribute disabled
  idWired,          \* #submit.onclick is the identity handler of renderIdentity
  thanksWired,      \* #continue.onclick is the close handler of showThanksOverlay
  idInput,          \* value of the #identityInput element of the last renderIdentity
  delayTimer,       \* handleSubmit is waiting in sleep(delay * 1000)
  resumeTimer,      \* closeOverlayAndResume is waiting in sleep(100)
  resumeUpd,        \* the waiting closeOverlayAndResume was called by handleContinue
  thanksTimer,      \* setTimeout(showThanksOverlay, 120) is pending
  net,              \* the submission request in flight, if any
  server,           \* attempts recorded by the attempt store, by nonce
  requests,         \* history: the payloads dispatched so far
  shows,            \* history: non-review opens of each item since its last answer
  rewinds,          \* history: number of corrective rewinds of the seek guard
  fwdJumps,         \* history: number of forward jumps seen by tick, no overlay open
  successRuns,      \* history: number of runs of the success path
  skipped,          \* history: cells skipped by a forward jump and not played since
  lastCall,         \* history: arguments and input of the last addSegment call
  fed,              \* history: the cells of the intervals given to FeedSegment
  conflicts,        \* history: a request of this page was answered with 409
  reviews,          \* history: review opens of each item since the playhead last went back
  moved,            \* history: the playhead was moved by a seek or a restart
  \* ---- the dashboard page
  PANELS_WIRED, RESP_WIRED,
  viewStored,       \* localStorage dashboard_view_key
  viewInput,        \* value of the #viewKey input
  saveShown,        \* #viewKey and #saveViewKey are displayed (no saved-key pill)
  bootPc,           \* the DOMContentLoaded handler: "start", "loading", "done"
  savePc,           \* the click handler of #saveViewKey: "idle", "validating", "wiring", "reloading"
  saveVal,          \* the value that handler has read from the input
  delStored,        \* localStorage dashboard_delete_key
  delInput,         \* value of the #deleteKey input
  delSavePc,        \* the click handler of #saveDeleteKey: "idle", "validating"
  delSaveVal,       \* the value that handler has read from the input
  rows,             \* the attempts table has been rendered
  delEnabled,       \* the delete buttons are not disabled
  dialog,           \* the delete waiting in uiConfirm, op "none" when the dialog is closed
  returnValue,      \* returnValue of the dialog element #cfmDlg
  deletePc,         \* the delete handler: "idle", "listing", "sent", "reloading"
  todo,             \* deleteByViewer over all quizzes: the quizzes still to do
  attemptsInits,    \* history: number of runs of initAttemptsPanel
  respInits,        \* history: number of runs of initRespPanel
  answer,           \* history: how the viewer closed the last dialog
  delRequests,      \* history: the delete requests handed to fetch
  keyErrors         \* history: number of NO_DELETE_KEY errors thrown

playerVars == << pos, st, sampled, seeks, replays >>
covVars    == << watching, segStart, segments >>
gateVars   == << overlayOpen, currentItem, watchedToEnd, reviewedThisPass,
                 lastNow, reviewMode, peakTime, reviewExitTime, warnedSeekOnce >>
ansVars    == << answered, meta >>
subVars    == << submitting, submittedOnce, ATTEMPT_NONCE >>
uiVars     == << view, submitHidden, submitDisabled, contHidden, finishHidden,
                 finishDisabled, idWired, thanksWired, idInput >>
timerVars  == << delayTimer, resumeTimer, resumeUpd, thanksTimer >>
netVars    == << net, server, requests >>
histVars   == << shows, rewinds, fwdJumps, successRuns, skipped, lastCall, fed, conflicts, reviews,
                moved >>

Items   == quiz.items
ItemIdx == 1 .. Len(Items)

wireVars    == << PANELS_WIRED, RESP_WIRED, bootPc, savePc, saveVal,
                  attemptsInits, respInits >>
viewKeyVars == << viewStored, viewInput, saveShown >>
delKeyVars  == << delStored, delInput, delSavePc, delSaveVal >>
tableVars   == << rows, delEnabled >>
delVars     == << dialog, returnValue, deletePc, todo, answer,
                  delRequests, keyErrors >>
dashVars    == << wireVars, viewKeyVars, delKeyVars, tableVars, delVars >>

engineVars == << quiz, playerVars, covVars, gateVars, ansVars, subVars, uiVars,
                 timerVars, netVars, histVars >>

vars == << engineVars, dashVars >>

\* ------------------------------------------------------- coverage helpers
\* the effective end ignoring endAt
effectiveEnd_Untrimmed(dur) == dur

effectiveEnd(dur) ==
  IF quiz.endAt > 0 /\ dur > 0 THEN Min2(quiz.endAt, dur) ELSE dur

\* segments.sort((x, y) => x[0] - y[0]): stable, by start
InsertByStart(s, seq) ==
  LET k == Cardinality({ i \in 1 .. Len(seq) : seq[i][1] <= s[1] })
  IN  SubSeq(seq, 1, k) \o << s >> \o SubSeq(seq, k + 1, Len(seq))

RECURSIVE SortByStart(_)
SortByStart(seq) ==
  IF seq = << >> THEN << >>
  ELSE InsertByStart(seq[Len(seq)], SortByStart(SubSeq(seq, 1, Len(seq) - 1)))

\* the merge loop with the tolerance left out
MergeStep_NoTolerance(merged, s) ==
  IF merged = << >> THEN << s >>
  ELSE LET last == merged[Len(merged)]
       IN  IF s[1] <= last[2]
           THEN [merged EXCEPT ![Len(merged)] = << last[1], Max2(last[2], s[2]) >>]
           ELSE Append(merged, s)

\* the merge loop of addSegment
MergeStep(merged, s) ==
  IF merged = << >> THEN << s >>
  ELSE LET last == merged[Len(merged)]
       IN  IF s[1] <= last[2] + tol
           THEN [merged EXCEPT ![Len(merged)] = << last[1], Max2(last[2], s[2]) >>]
           ELSE Append(merged, s)

RECURSIVE MergeAll(_, _)
MergeAll(merged, rest) ==
  IF rest = << >> THEN merged
  ELSE MergeAll(MergeStep(merged, Head(rest)), Tail(rest))

addSegment(segs, a, b) ==
  IF ~(b > a) THEN segs
  ELSE MergeAll(<< >>, SortByStart(Append(segs, << a, b >>)))

\* the coverage state as a value, to follow the calls of one handler
Cov == [watching |-> watching, segStart |-> segStart, segments |-> segments]

startWatch(c, at) ==
  IF ~c.watching THEN [c EXCEPT !.watching = TRUE, !.segStart = at] ELSE c

\* stopWatch leaving the segment open
stopWatch_KeepOpen(c, at) == c

\* stopWatch forgetting the open segment
stopWatch_Drop(c, at) == [c EXCEPT !.watching = FALSE]

stopWatch(c, at) ==
  IF c.watching
  THEN [c EXCEPT !.segments = addSegment(c.segments, c.segStart, at),
                 !.watching = FALSE]
  ELSE c

RECURSIVE SumSegments(_)
SumSegments(segs) ==
  IF segs = << >> THEN 0
  ELSE Max2(0, Head(segs)[2] - Head(segs)[1]) + SumSegments(Tail(segs))

watchedSeconds(c, now, dur) ==
  LET closed == SumSegments(c.segments)
      total  == IF c.watching THEN closed + Max2(0, now - c.segStart) ELSE closed
  IN  IF dur # 0 THEN Min2(total, dur) ELSE total

\* watchedPercent without the 97 percent rule
watchedPercent_OneSecondOnly(c, now, dur) ==
  LET denom == effectiveEnd(dur)
      sec   == watchedSeconds(c, now, denom)
  IN  IF denom <= 0 THEN 0
      ELSE IF (denom - sec) <= CloseEnough
           THEN 10000
           ELSE Max2(0, Min2(10000, (sec * 10000) \div denom))

\* watchedPercent, in hundredths of a percent
watchedPercent(c, now, dur) ==
  LET denom == effectiveEnd(dur)
      sec   == watchedSeconds(c, now, denom)
  IN  IF denom <= 0 THEN 0
      ELSE IF (denom - sec) <= CloseEnough \/ sec * 100 >= CloseEnoughPct * denom
           THEN 10000
           ELSE Max2(0, Min2(10000, (sec * 10000) \div denom))

\* ------------------------------------------------------------------ grading
\* normalizeAnswer reads the answer from #choices.  input is what the viewer
\* entered in the widgets shown.  While #choices shows the identity input
\* (view "identity") there is no radio button, and the text input found is
\* the identity input.
normalizeAnswer(item, vw, input, idv) ==
  CASE item.type = "mcq"   -> [kind |-> "mcq", v |-> IF vw = "item" THEN input ELSE ""]
    [] item.type = "fib"   -> [kind |-> "fib", v |-> IF vw = "identity" THEN idv ELSE input]
    [] item.type = "pause" -> [kind |-> "pause", v |-> ""]
    [] item.type = "checkbox" ->
         [kind |-> "checkbox", v |-> IF vw = "item" THEN SelectionOf(input) ELSE {}]
    [] item.type = "poll"  -> [kind |-> "poll", v |-> IF vw = "item" THEN input ELSE ""]
    [] item.type = "fr"    -> [kind |-> "fr", v |-> IF vw = "identity" THEN idv ELSE input]

\* a checkbox grade that gives no half point
gradeCheckbox_AllOrNothing(corr, sel) ==
  IF sel = corr /\ corr # {} THEN 2 ELSE 0

\* gradeItem for a checkbox item, in half points: corr and sel are the Sets
\* built from item.correct and ans.selected
gradeCheckbox(corr, sel) ==
  LET correctSel   == Cardinality({ o \in sel : o \in corr })
      incorrectSel == Cardinality({ o \in sel : o \notin corr })
  IN  IF correctSel = Cardinality(corr) /\ incorrectSel = 0 /\ Cardinality(corr) > 0
      THEN 2
      ELSE IF correctSel > 0 THEN 1 ELSE 0

\* gradeItem, in half points
gradeItem(item, ans) ==
  CASE item.type = "mcq" -> IF ans.v = "a" THEN 2 ELSE 0
    [] item.type = "fib" -> IF ans.v = "x" THEN 2 ELSE 0
    [] item.type = "checkbox" -> gradeCheckbox(item.correct, ans.v)
    [] OTHER             -> 0

\* handleSubmit: the text written to #feedback for a stored answer
feedbackText(item, ans) ==
  CASE item.type = "mcq" ->
         IF gradeItem(item, ans) = 2 THEN "Correct." ELSE "Incorrect."
    [] item.type = "checkbox" ->
         LET correctSel   == Cardinality(ans.v \cap item.correct)
             incorrectSel == Cardinality(ans.v \ item.correct)
         IN  IF correctSel = Cardinality(item.correct) /\ incorrectSel = 0
             THEN "All correct."
             ELSE IF correctSel > 0 THEN "Partially correct." ELSE "Not correct."
    [] item.type = "fib" ->
         IF gradeItem(item, ans) = 2 THEN "Correct." ELSE "Not quite."
    [] item.type = "poll" -> "Thanks for your response."
    [] item.type = "fr" -> "Recorded."
    [] OTHER -> ""

RECURSIVE TotalsFrom(_, _)
TotalsFrom(i, ans) ==
  IF i > Len(Items) THEN [pts |-> 0, max |-> 0]
  ELSE LET rest == TotalsFrom(i + 1, ans)
           it   == Items[i]
       IN  IF it.type \notin SCORABLE THEN rest
           ELSE [pts |-> rest.pts + (IF it.id \in DOMAIN ans
                                     THEN gradeItem(it, ans[it.id]) ELSE 0),
                 max |-> rest.max + 2]

\* Math.round((pts / max) * 10000) / 100, in hundredths of a percent
RoundedPct(pts, max) ==
  IF max = 0 THEN 0 ELSE (2 * pts * 10000 + max) \div (2 * max)

\* totals whose max counts the answered scorable items only
computeTotals_AnsweredOnly(ans) ==
  LET t == TotalsFrom(1, ans)
      m == 2 * Cardinality({ i \in ItemIdx : Items[i].type \in SCORABLE
                                             /\ Items[i].id \in DOMAIN ans })
  IN  [pts |-> t.pts, max |-> m, pct |-> RoundedPct(t.pts, m)]

computeTotals(ans) ==
  LET t == TotalsFrom(1, ans)
  IN  [pts |-> t.pts, max |-> t.max, pct |-> RoundedPct(t.pts, t.max)]

\* updateProgress: whether #finish carries the class hidden afterwards
updateProgress(ans, wte) ==
  IF quiz.requireIdentity THEN TRUE
  ELSE LET total == Cardinality({ i \in ItemIdx : Items[i].type \in SCORABLE })
           done  == Cardinality({ i \in ItemIdx : Items[i].type \in SCORABLE
                                                  /\ Items[i].id \in DOMAIN ans })
       IN  ~((done >= total) /\ (~quiz.requireWatchToEnd \/ wte))

\* ------------------------------------------------------------------- gating
\* rm is the value of reviewMode when the function is called
nextGateTimeAfter(now, rm) ==
  LET reviewing == quiz.reviewOnRewatch /\ rm
      gates == { Items[i].t : i \in { j \in ItemIdx :
                   ~(~reviewing /\ Items[j].id \in DOMAIN answered)
                   /\ Items[j].t >= now } }
  IN  IF gates = {} THEN Inf
      ELSE CHOOSE t \in gates : \A u \in gates : t <= u

\* maybeTrigger that opens nothing
maybeTrigger_Never(now, rm, rtp) == 0

\* maybeTrigger reviewing answered items whatever the review mode
maybeTrigger_AlwaysReview(now, rm, rtp) ==
  LET due == { i \in ItemIdx :
                 now >= Items[i].t
                 /\ (Items[i].id \notin DOMAIN answered \/ Items[i].id \notin rtp) }
  IN  IF due = {} THEN 0
      ELSE CHOOSE i \in due : \A j \in due : i <= j

\* maybeTrigger opening the due item with the earliest trigger time
maybeTrigger_EarliestFirst(now, rm, rtp) ==
  LET reviewing == quiz.reviewOnRewatch /\ rm
      due == { i \in ItemIdx :
                 now >= Items[i].t
                 /\ (Items[i].id \notin DOMAIN answered
                     \/ (reviewing /\ Items[i].id \notin rtp)) }
  IN  IF due = {} THEN 0
      ELSE CHOOSE i \in due :
             \A j \in due : Items[i].t < Items[j].t
                             \/ (Items[i].t = Items[j].t /\ i <= j)

\* maybeTrigger: the index of the item whose overlay it opens, 0 when it
\* returns false; rm and rtp are reviewMode and reviewedThisPass at the call
maybeTrigger(now, rm, rtp) ==
  LET reviewing == quiz.reviewOnRewatch /\ rm
      due == { i \in ItemIdx :
                 now >= Items[i].t
                 /\ (Items[i].id \notin DOMAIN answered
                     \/ (reviewing /\ Items[i].id \notin rtp)) }
  IN  IF due = {} THEN 0
      ELSE CHOOSE i \in due : \A j \in due : i <= j

\* --------------------------------------------------------------- the state
NoCall == [a |-> 0, b |-> 0, before |-> << >>]

NoReviews == [i \in ItemIds |-> 0]

NoDelete == [op |-> "none", quiz |-> ""]

\* the dashboard page before DOMContentLoaded, with the keys that earlier
\* visits left in localStorage
DashStart(viewKeys, deleteKeys) ==
  /\ PANELS_WIRED = FALSE /\ RESP_WIRED = FALSE
  /\ viewStored \in viewKeys /\ viewInput = "" /\ saveShown = TRUE
  /\ bootPc = "start" /\ savePc = "idle" /\ saveVal = ""
  /\ delStored \in deleteKeys /\ delInput = "" /\ delSavePc = "idle" /\ delSaveVal = ""
  /\ rows = FALSE /\ delEnabled = TRUE
  /\ dialog = NoDelete /\ returnValue = "" /\ deletePc = "idle" /\ todo = << >>
  /\ attemptsInits = 0 /\ respInits = 0 /\ answer = ""
  /\ delRequests = << >> /\ keyErrors = 0

EngineInit(quizzes) ==
  /\ quiz \in quizzes
  /\ pos = 0 /\ st = "PAUSED" /\ sampled = TRUE /\ seeks = 0 /\ replays = 0
  /\ overlayOpen = FALSE /\ currentItem = 0 /\ watchedToEnd = FALSE
  /\ answered = << >> /\ meta = FALSE
  /\ reviewedThisPass = {} /\ lastNow = 0
  /\ reviewMode = FALSE /\ peakTime = 0 /\ reviewExitTime = 0
  /\ watching = FALSE /\ segStart = 0 /\ segments = << >>
  /\ warnedSeekOnce = FALSE
  /\ submitting = FALSE /\ submittedOnce = FALSE /\ ATTEMPT_NONCE \in Nonces
  /\ view = "none" /\ submitHidden = FALSE /\ submitDisabled = FALSE
  /\ contHidden = TRUE /\ finishHidden = TRUE /\ finishDisabled = FALSE
  /\ idWired = FALSE /\ thanksWired = FALSE /\ idInput = ""
  /\ delayTimer = FALSE /\ resumeTimer = 0 /\ resumeUpd = FALSE /\ thanksTimer = 0
  /\ net = << >> /\ server = << >> /\ requests = << >>
  /\ shows = [i \in ItemIds |-> 0]
  /\ rewinds = 0 /\ fwdJumps = 0 /\ successRuns = 0 /\ skipped = {} /\ lastCall = NoCall /\ fed = {} /\ conflicts = FALSE
  /\ reviews = NoReviews
  /\ moved = FALSE

\* a player page: the dashboard part stays as it starts
InitWith(quizzes) ==
  /\ DashStart({""}, {""})
  /\ EngineInit(quizzes)

Init == InitWith(Quizzes)

SetCov(c) ==
  /\ watching' = c.watching /\ segStart' = c.segStart /\ segments' = c.segments

\* ------------------------------------------------------------- the player
\* seekTo: a paused player stays paused, any other player plays
SeekState(s) == IF s = "PAUSED" THEN "PAUSED" ELSE "PLAYING"

\* After a seek the player may report BUFFERING (and PLAYING again once the
\* data is there) or PAUSED, or report nothing.
SeekEvents(s) == IF s = "PAUSED" THEN {"PAUSED", "none"} ELSE {"BUFFERING", "none"}

\* pauseVideo
PauseState(s) == IF s = "PLAYING" THEN "PAUSED" ELSE s

\* onStateChange, PAUSED or BUFFERING: stopWatch(getCurrentTime())
onStateChange(c, e, now) ==
  IF e \in {"PAUSED", "BUFFERING"} THEN stopWatch(c, now) ELSE c

\* the cells [a, b)
Cells(a, b) == { x \in 0 .. Dur : a <= x /\ x < b }

\* renderIdentity, without its call of pauseVideo
renderIdentity ==
  /\ view' = "identity" /\ idInput' = ""
  /\ contHidden' = TRUE /\ submitHidden' = FALSE /\ submitDisabled' = FALSE
  /\ idWired' = TRUE /\ overlayOpen' = TRUE
  /\ UNCHANGED thanksWired

\* an identity prompt that only needs requireIdentity and no open overlay
IdentityDue_Always == quiz.requireIdentity /\ ~overlayOpen

\* the condition under which tick and onStateChange call renderIdentity
IdentityDue ==
  /\ quiz.requireIdentity /\ ID_KEY \notin DOMAIN answered
  /\ ~overlayOpen /\ ~submitting /\ ~submittedOnce

\* the playhead moves by one sampling period; at the end of the video the
\* player reports ENDED and onStateChange runs
Advance ==
  /\ st = "PLAYING" /\ sampled /\ pos < Dur
  /\ pos' = Min2(pos + PlayStep, Dur)
  /\ sampled' = FALSE
  /\ skipped' = skipped \ Cells(pos, pos')
  /\ UNCHANGED << dashVars, quiz, seeks, replays, ansVars, subVars, timerVars,
                  netVars, shows, rewinds, fwdJumps, successRuns, lastCall, fed, conflicts, reviews, moved,
                  currentItem, reviewedThisPass, lastNow, reviewMode, peakTime,
                  reviewExitTime, warnedSeekOnce >>
  /\ IF pos' < Dur
     THEN /\ st' = "PLAYING"
          /\ UNCHANGED << covVars, overlayOpen, watchedToEnd, uiVars >>
     ELSE /\ st' = "ENDED"
          /\ watchedToEnd' = TRUE
          /\ SetCov(stopWatch(Cov, pos'))
          /\ finishHidden' = updateProgress(answered, TRUE)
          /\ UNCHANGED finishDisabled
          /\ IF IdentityDue
             THEN renderIdentity
             ELSE UNCHANGED << overlayOpen, view, submitHidden, submitDisabled,
                               contHidden, idWired, thanksWired, idInput >>

\* the viewer seeks to q, between two samples of tick
UserSeek(q) ==
  /\ seeks < MaxSeeks /\ q # pos /\ st # "ENDED" /\ sampled
  /\ seeks' = seeks + 1
  /\ pos' = q
  /\ st' = SeekState(st)
  /\ \E e \in SeekEvents(st) : SetCov(onStateChange(Cov, e, q))
  /\ skipped' = IF q > pos + JumpFwd THEN skipped \cup Cells(pos, q) ELSE skipped
  /\ UNCHANGED << dashVars, quiz, sampled, replays, gateVars, ansVars, subVars,
                  uiVars, timerVars, netVars, shows, rewinds, fwdJumps, successRuns,
                  lastCall, fed, conflicts >>
  /\ reviews' = IF q < pos THEN NoReviews ELSE reviews
  /\ moved' = TRUE

\* the viewer pauses the video: onStateChange(PAUSED)
UserPause ==
  /\ st = "PLAYING"
  /\ st' = "PAUSED"
  /\ SetCov(onStateChange(Cov, "PAUSED", pos))
  /\ UNCHANGED << dashVars, quiz, pos, sampled, seeks, replays, gateVars, ansVars, subVars,
                  uiVars, timerVars, netVars, histVars >>

\* the viewer starts the video; an ended video starts again from 0
UserPlay ==
  /\ st \in {"PAUSED", "ENDED"}
  /\ st = "ENDED" => replays < MaxReplays
  /\ replays' = IF st = "ENDED" THEN replays + 1 ELSE replays
  /\ st' = "PLAYING"
  /\ pos' = IF st = "ENDED" THEN 0 ELSE pos
  /\ moved' = (moved \/ st = "ENDED")
  /\ UNCHANGED << dashVars, quiz, sampled, seeks, covVars, gateVars, ansVars, subVars,
                  uiVars, timerVars, netVars, shows, rewinds, fwdJumps,
                  successRuns, skipped, lastCall, fed, conflicts >>
  /\ reviews' = IF st = "ENDED" THEN NoReviews ELSE reviews

\* ---------------------------------------------------------------- the tick
\* the one-time forward seek bounce of tick
\* the seek guard without its once-only flag
\* a seek guard that never fires
SeekGuardFires_Never(now) == FALSE

SeekGuardFires_EveryTime(now) == (now > lastNow + WarnJump) /\ ~overlayOpen

SeekGuardFires(now) ==
  ~warnedSeekOnce /\ (now > lastNow + WarnJump) /\ ~overlayOpen

\* review mode that never ends
ReviewExit_Never(rm, now, exit) == rm

\* tick: if (reviewMode && now >= reviewExitTime - 0.1) reviewMode = false
ReviewExit(rm, now, exit) ==
  IF rm /\ now >= exit - ReviewSlack THEN FALSE ELSE rm

\* a ceiling without the 0.4 s of slack
CeilingFires_NoSlack(now, cap) == cap < Inf /\ now > cap

\* the hard ceiling of tick
CeilingFires(now, cap) == cap < Inf /\ now > cap + CapSlack

\* the ceiling seek landing on the gate itself
CeilingTarget_OnGate(cap) == cap

CeilingTarget(cap) == Max2(0, cap - CapBack)

\* the coverage rule of tick: "close enough" to the effective end
CoverageReached(c, now, effEnd) ==
  LET secCovered == watchedSeconds(c, now, effEnd)
  IN  /\ effEnd # 0 /\ ~watchedToEnd
      /\ (effEnd - secCovered <= CloseEnough
          \/ secCovered * 100 >= CloseEnoughPct * effEnd)

\* showOverlay: the buttons and the view
showOverlay(i, review) ==
  /\ currentItem' = i
  /\ overlayOpen' = TRUE
  /\ view' = IF review THEN "review" ELSE "item"
  /\ submitDisabled' = FALSE
  /\ submitHidden' = (Items[i].type = "pause" \/ review)
  /\ contHidden' = ~(Items[i].type = "pause" \/ review)
  /\ UNCHANGED << idWired, thanksWired, idInput >>

Bump(n) == IF n = 1 THEN 2 ELSE n

tick ==
  /\ resumeTimer # 2 /\ thanksTimer # 2
  /\ LET now       == pos
         dur       == Dur
         isPlaying == (st = "PLAYING")
         jumpFwd   == now > lastNow + JumpFwd
         jumpBack  == now + JumpBack < lastNow
         c1 == IF isPlaying /\ ~overlayOpen
               THEN LET a == startWatch(Cov, now)
                    IN  IF jumpFwd \/ jumpBack
                        THEN startWatch(stopWatch(a, lastNow), now)
                        ELSE a
               ELSE stopWatch(Cov, now)
         pk == Max2(peakTime, now)
     IN
     /\ sampled' = TRUE
     /\ resumeTimer' = Bump(resumeTimer) /\ thanksTimer' = Bump(thanksTimer)
     /\ peakTime' = pk
     /\ fwdJumps' = IF jumpFwd /\ ~overlayOpen THEN Min2(fwdJumps + 1, 2) ELSE fwdJumps
     /\ UNCHANGED << dashVars, quiz, seeks, replays, ansVars, subVars, delayTimer,
                     resumeUpd,
                     netVars, successRuns, skipped, lastCall, fed, conflicts >>
     /\ IF SeekGuardFires(now)
        THEN \* warn once, seek back to lastNow and return
          /\ warnedSeekOnce' = TRUE
          /\ rewinds' = Min2(rewinds + 1, 2)
          /\ pos' = Max2(0, lastNow)
          /\ moved' = TRUE
          /\ st' = SeekState(st)
          /\ \E e \in SeekEvents(st) : SetCov(onStateChange(c1, e, pos'))
          /\ UNCHANGED << overlayOpen, currentItem, watchedToEnd, reviewedThisPass,
                          lastNow, reviewMode, reviewExitTime, uiVars, shows,
                          reviews >>
        ELSE
          LET enter == quiz.reviewOnRewatch /\ jumpBack
              rm1   == reviewMode \/ enter
              rtp1  == IF enter THEN {} ELSE reviewedThisPass
              ret1  == IF enter THEN pk ELSE reviewExitTime
              rm2   == ReviewExit(rm1, now, ret1)
              cap   == nextGateTimeAfter(lastNow, rm2)
              trig  == IF overlayOpen THEN 0 ELSE maybeTrigger(now, rm2, rtp1)
          IN
          /\ reviewMode' = rm2 /\ reviewExitTime' = ret1
          /\ UNCHANGED << warnedSeekOnce, rewinds >>
          /\ IF CeilingFires(now, cap)
             THEN \* force the playhead back below the gate and return
               /\ pos' = CeilingTarget(cap)
               /\ moved' = TRUE
               /\ st' = SeekState(st)
               /\ \E e \in SeekEvents(st) : SetCov(onStateChange(c1, e, pos'))
               /\ reviewedThisPass' = rtp1
               /\ UNCHANGED << overlayOpen, currentItem, watchedToEnd, lastNow,
                               uiVars, shows >>
               /\ reviews' = IF rm2 THEN reviews ELSE NoReviews
             ELSE IF trig # 0
             THEN \* maybeTrigger opened an overlay
               LET id  == Items[trig].id
                   rev == id \in DOMAIN answered
               IN
               /\ showOverlay(trig, rev)
               /\ reviewedThisPass' = IF rev THEN rtp1 \cup {id} ELSE rtp1
               /\ st' = PauseState(st) /\ pos' = pos /\ moved' = moved
               /\ SetCov(stopWatch(c1, now))
               /\ finishHidden' = updateProgress(answered, watchedToEnd)
               /\ shows' = IF rev THEN shows
                           ELSE [shows EXCEPT ![id] = Min2(@ + 1, 2)]
               /\ reviews' = IF rev THEN [reviews EXCEPT ![id] = Min2(@ + 1, 2)]
                             ELSE IF rm2 THEN reviews ELSE NoReviews
               /\ UNCHANGED << watchedToEnd, lastNow, finishDisabled >>
             ELSE
               LET effEnd  == effectiveEnd(dur)
                   reached == CoverageReached(c1, now, effEnd)
                   c2      == IF reached THEN stopWatch(c1, now) ELSE c1
                   wte     == watchedToEnd \/ reached
               IN
               /\ watchedToEnd' = wte
               /\ SetCov(c2)
               /\ reviewedThisPass' = rtp1
               /\ pos' = pos /\ moved' = moved
               /\ finishHidden' = updateProgress(answered, wte)
               /\ UNCHANGED << currentItem, finishDisabled, shows >>
               /\ reviews' = IF rm2 THEN reviews ELSE NoReviews
               /\ IF reached /\ IdentityDue
                  THEN \* prompt for the identity and return
                    /\ st' = PauseState(st)
                    /\ renderIdentity
                    /\ UNCHANGED lastNow
                  ELSE
                    /\ lastNow' = now
                    /\ st' = st
                    /\ UNCHANGED << overlayOpen, view, submitHidden, submitDisabled,
                                    contHidden, idWired, thanksWired, idInput >>

\* ------------------------------------------------------------- the handlers
Put(f, k, val) == [x \in (DOMAIN f) \cup {k} |-> IF x = k THEN val ELSE f[x]]

\* the guard without the submitting flag
SubmitGuard_NoSubmitting(sub, once) == ~once

\* no guard at all
SubmitGuard_None(sub, once) == TRUE

\* the guard of submitAttemptNow and handleFinish
SubmitGuard(sub, once) == ~(sub \/ once)

\* a nonce drawn anew for a retry
PayloadNonce_PerRequest == IF requests = << >> THEN ATTEMPT_NONCE ELSE "n2"

\* the nonce of a payload
PayloadNonce == ATTEMPT_NONCE

\* the request that submitAttemptNow and handleFinish hand to fetch
Request(path, viewer, ans) ==
  [stage |-> "sent", path |-> path, viewer |-> viewer,
   points |-> computeTotals(ans).pts, max |-> computeTotals(ans).max,
   nonce |-> PayloadNonce]

\* what the viewer can enter in #choices before a click on #submit
ItemInputs ==
  IF currentItem # 0 /\ view = "item"
  THEN CASE Items[currentItem].type = "mcq" -> McqInputs
         [] Items[currentItem].type = "fib" -> FibInputs
         [] Items[currentItem].type = "checkbox" -> CheckboxInputs
         [] Items[currentItem].type = "poll" -> PollInputs
         [] Items[currentItem].type = "fr" -> FrInputs
         [] OTHER -> {""}
  ELSE {""}

\* A click on #submit (or Enter in the identity input, which clicks it):
\* the listener handleSubmit runs first, then the onclick handler that
\* renderIdentity installed, which calls submitAttemptNow.
ClickSubmit(input, v) ==
  /\ overlayOpen /\ ~submitDisabled
  /\ (~submitHidden \/ view = "identity")
  /\ input \in ItemInputs
  /\ v \in (IF view = "identity" THEN ViewerInputs ELSE {idInput})
  /\ LET has      == currentItem # 0
         item     == Items[currentItem]
         ans      == normalizeAnswer(item, view, input, v)
         rejected == item.type \in {"mcq", "poll"} /\ ans.v = ""
         stores   == has /\ ~rejected
         closes   == stores /\ ~quiz.requireContinue /\ quiz.feedbackDelaySeconds = 0
         waits    == stores /\ ~quiz.requireContinue /\ quiz.feedbackDelaySeconds > 0
         answered1 == IF stores THEN Put(answered, item.id, ans) ELSE answered
         \* the onclick handler of the identity overlay
         attempts == idWired /\ v # "" /\ SubmitGuard(submitting, submittedOnce)
         answered2 == IF attempts
                      THEN Put(answered1, ID_KEY, [kind |-> "fr", v |-> v])
                      ELSE answered1
     IN
     /\ attempts => Len(requests) < MaxRequests
     /\ idInput' = v
     /\ answered' = answered2
     /\ reviewedThisPass' = IF stores THEN reviewedThisPass \cup {item.id}
                            ELSE reviewedThisPass
     /\ shows' = IF stores THEN [shows EXCEPT ![item.id] = 0] ELSE shows
     /\ submitHidden' = IF stores /\ quiz.requireContinue THEN TRUE ELSE submitHidden
     /\ contHidden' = IF stores /\ quiz.requireContinue THEN FALSE ELSE contHidden
     /\ submitDisabled' = waits
     /\ delayTimer' = (delayTimer \/ waits)
     /\ overlayOpen' = IF closes THEN FALSE ELSE overlayOpen
     /\ resumeTimer' = IF closes THEN 1 ELSE resumeTimer
     /\ submitting' = (submitting \/ attempts)
     /\ meta' = (meta \/ attempts)
     /\ net' = IF attempts THEN Append(net, Request("identity", v, answered2)) ELSE net
     /\ requests' = IF attempts
                    THEN Append(requests, Request("identity", v, answered2))
                    ELSE requests
     /\ UNCHANGED << dashVars, quiz, playerVars, covVars, currentItem, watchedToEnd, lastNow,
                     reviewMode, peakTime, reviewExitTime, warnedSeekOnce,
                     submittedOnce, ATTEMPT_NONCE, view, finishHidden, finishDisabled,
                     idWired, thanksWired, resumeUpd, thanksTimer, server,
                     rewinds, fwdJumps, successRuns, skipped, lastCall, fed, conflicts, reviews, moved >>

\* handleSubmit resumes after sleep(delay * 1000) and calls
\* closeOverlayAndResume
DelayFire ==
  /\ delayTimer
  /\ delayTimer' = FALSE
  /\ submitDisabled' = FALSE
  /\ overlayOpen' = FALSE
  /\ resumeTimer' = 1
  /\ UNCHANGED << dashVars, quiz, playerVars, covVars, currentItem, watchedToEnd,
                  reviewedThisPass, lastNow, reviewMode, peakTime, reviewExitTime,
                  warnedSeekOnce, ansVars, subVars, view, submitHidden, contHidden,
                  finishHidden, finishDisabled, idWired, thanksWired, idInput,
                  resumeUpd, thanksTimer, netVars, histVars >>

\* A click on #continue: the listener handleContinue runs, then the onclick
\* handler that showThanksOverlay installed (closeOverlay).
ClickContinue ==
  /\ overlayOpen /\ ~contHidden
  /\ LET has   == currentItem # 0
         item  == Items[currentItem]
         rel   == has /\ item.type = "pause" /\ item.id \notin DOMAIN answered
     IN
     /\ answered' = IF rel THEN Put(answered, item.id, [kind |-> "pause", v |-> "cont"])
                    ELSE answered
     /\ shows' = IF rel THEN [shows EXCEPT ![item.id] = 0] ELSE shows
     /\ reviewedThisPass' = IF has THEN reviewedThisPass \cup {item.id}
                            ELSE reviewedThisPass
  /\ overlayOpen' = FALSE
  /\ resumeTimer' = 1
  /\ resumeUpd' = TRUE
  /\ UNCHANGED << dashVars, quiz, playerVars, covVars, currentItem, watchedToEnd, lastNow,
                  reviewMode, peakTime, reviewExitTime, warnedSeekOnce, meta,
                  subVars, uiVars, delayTimer, thanksTimer, netVars,
                  rewinds, fwdJumps, successRuns, skipped, lastCall, fed, conflicts, reviews, moved >>

\* closeOverlayAndResume resumes after sleep(100): playVideo, and the
\* updateProgress of handleContinue
ResumeFire ==
  /\ resumeTimer # 0
  /\ st = "ENDED" => replays < MaxReplays
  /\ replays' = IF st = "ENDED" THEN replays + 1 ELSE replays
  /\ resumeTimer' = 0
  /\ resumeUpd' = FALSE
  /\ st' = IF st \in {"PAUSED", "ENDED"} THEN "PLAYING" ELSE st
  /\ pos' = IF st = "ENDED" THEN 0 ELSE pos
  /\ finishHidden' = IF resumeUpd THEN updateProgress(answered, watchedToEnd)
                     ELSE finishHidden
  /\ UNCHANGED << dashVars, quiz, sampled, seeks, covVars, gateVars, ansVars,
                  subVars, view, submitHidden, submitDisabled, contHidden,
                  finishDisabled,
                  idWired, thanksWired, idInput, delayTimer, thanksTimer,
                  netVars, shows, rewinds, fwdJumps, successRuns, skipped,
                  lastCall, fed, conflicts >>
  /\ reviews' = IF st = "ENDED" THEN NoReviews ELSE reviews
  /\ moved' = (moved \/ st = "ENDED")

\* setTimeout(() => showThanksOverlay(wPct), 120) fires
showThanksOverlay ==
  /\ thanksTimer # 0
  /\ thanksTimer' = 0
  /\ view' = "thanks"
  /\ submitHidden' = TRUE /\ submitDisabled' = TRUE
  /\ contHidden' = FALSE
  /\ thanksWired' = TRUE
  /\ overlayOpen' = TRUE
  /\ UNCHANGED << dashVars, quiz, playerVars, covVars, currentItem, watchedToEnd,
                  reviewedThisPass, lastNow, reviewMode, peakTime, reviewExitTime,
                  warnedSeekOnce, ansVars, subVars, finishHidden, finishDisabled,
                  idWired, idInput, delayTimer, resumeTimer, resumeUpd,
                  netVars, histVars >>

\* A click on #finish
handleFinish ==
  /\ ~finishHidden /\ ~finishDisabled
  /\ ~quiz.requireIdentity
  /\ SubmitGuard(submitting, submittedOnce)
  /\ Len(requests) < MaxRequests
  /\ submitting' = TRUE
  /\ finishDisabled' = TRUE
  /\ meta' = TRUE
  /\ net' = Append(net, Request("finish", "", answered))
  /\ requests' = Append(requests, Request("finish", "", answered))
  /\ UNCHANGED << dashVars, quiz, playerVars, covVars, gateVars, answered, submittedOnce,
                  ATTEMPT_NONCE, view, submitHidden, submitDisabled, contHidden,
                  finishHidden, idWired, thanksWired, idInput, timerVars, server,
                  histVars >>

\* -------------------------------------------------------------- the network
RemoveAt(seq, k) == SubSeq(seq, 1, k - 1) \o SubSeq(seq, k + 1, Len(seq))

\* The attempt store handles request k: it records the attempt, or answers
\* with a conflict when the nonce is already recorded.
ServerHandle(k) ==
  /\ k \in 1 .. Len(net) /\ net[k].stage = "sent"
  /\ IF net[k].nonce \in DOMAIN server
     THEN /\ net' = [net EXCEPT ![k].stage = "409"]
          /\ UNCHANGED server
     ELSE /\ net' = [net EXCEPT ![k].stage = "ok"]
          /\ server' = Put(server, net[k].nonce,
                           [points |-> net[k].points, max |-> net[k].max])
  /\ UNCHANGED << dashVars, quiz, playerVars, covVars, gateVars, ansVars, subVars, uiVars,
                  timerVars, requests, histVars >>

\* the statuses with which fetch can settle for a request in a given stage:
\* the answer of the store, an HTTP error, or a rejected promise
Statuses(stage) ==
  CASE stage = "sent" -> {"error"}
    [] stage = "ok"   -> {"ok", "error"}
    [] stage = "409"  -> {"409", "error"}

\* a conflict treated as a failure
ResponseOk_No409(status) == status = "ok"

\* r.status === 409 or r.ok: the attempt counts as submitted
ResponseOk(status) == status \in {"ok", "409"}

\* the await fetch(...) of submitAttemptNow or handleFinish settles
Respond(k, status) ==
  /\ k \in 1 .. Len(net) /\ status \in Statuses(net[k].stage)
  /\ net' = RemoveAt(net, k)
  /\ IF ResponseOk(status)
     THEN /\ submittedOnce' = TRUE
          /\ successRuns' = Min2(successRuns + 1, 2)
          /\ UNCHANGED submitting
          /\ IF net[k].path = "identity"
             THEN \* closeOverlay, then the thanks overlay after 120 ms
               /\ overlayOpen' = FALSE
               /\ thanksTimer' = 1
               /\ UNCHANGED finishDisabled
             ELSE
               /\ finishDisabled' = TRUE
               /\ UNCHANGED << overlayOpen, thanksTimer >>
     ELSE /\ submitting' = FALSE
          /\ finishDisabled' = IF net[k].path = "finish" THEN FALSE ELSE finishDisabled
          /\ UNCHANGED << submittedOnce, successRuns, overlayOpen, thanksTimer >>
  /\ UNCHANGED << dashVars, quiz, playerVars, covVars, currentItem, watchedToEnd,
                  reviewedThisPass, lastNow, reviewMode, peakTime, reviewExitTime,
                  warnedSeekOnce, ansVars, ATTEMPT_NONCE, view, submitHidden,
                  submitDisabled, contHidden, finishHidden, idWired, thanksWired,
                  idInput, delayTimer, resumeTimer, resumeUpd, server, requests,
                  shows, rewinds, fwdJumps, skipped, lastCall, fed, moved, reviews >>
  /\ conflicts' = (conflicts \/ status = "409")

\* ------------------------------------------------------------ the dashboard
ViewKeys   == {"", "k"}
DeleteKeys == {"", "d"}

\* the quizzes that /api/quizzes lists
QuizIds == << "q1", "q2" >>

currentViewKey(input, stored) == IF input # "" THEN input ELSE stored

currentDeleteKey(input, stored) == IF input # "" THEN input ELSE stored

\* updateDeleteButtonsEnabled: btn.disabled = !has
updateDeleteButtonsEnabled(input, stored) == currentDeleteKey(input, stored) # ""

\* the DOMContentLoaded handler up to its first await: initViewKeyUI,
\* initDeleteKeyUI, updateDeleteButtonsEnabled, and with a view key the
\* start of initAttemptsPanel, which attaches its listeners and then loads
DOMContentLoaded ==
  /\ bootPc = "start"
  /\ viewInput' = viewStored /\ saveShown' = (viewStored = "")
  /\ delInput' = delStored
  /\ delEnabled' = updateDeleteButtonsEnabled(delStored, delStored)
  /\ IF currentViewKey(viewStored, viewStored) = ""
     THEN bootPc' = "done" /\ UNCHANGED attemptsInits
     ELSE bootPc' = "loading" /\ attemptsInits' = Min2(attemptsInits + 1, 3)
  /\ UNCHANGED << engineVars, PANELS_WIRED, RESP_WIRED, savePc, saveVal, respInits,
                  viewStored, delStored, delSavePc, delSaveVal, rows, delVars >>

\* initAttemptsPanel called by the boot handler has loaded the attempts: it
\* sets PANELS_WIRED, and the boot handler calls initRespPanel
BootLoaded ==
  /\ bootPc = "loading"
  /\ bootPc' = "done"
  /\ PANELS_WIRED' = TRUE /\ RESP_WIRED' = TRUE
  /\ respInits' = Min2(respInits + 1, 3)
  /\ rows' = TRUE /\ delEnabled' = updateDeleteButtonsEnabled(delInput, delStored)
  /\ UNCHANGED << engineVars, savePc, saveVal, attemptsInits, viewKeyVars,
                  delKeyVars, delVars >>

\* a click on the Change button of the saved-key pill of the view key
ClickChangeViewKey ==
  /\ bootPc # "start" /\ ~saveShown
  /\ saveShown' = TRUE
  /\ UNCHANGED << engineVars, wireVars, viewStored, viewInput, delKeyVars,
                  tableVars, delVars >>

TypeViewKey(v) ==
  /\ bootPc # "start" /\ saveShown /\ v # viewInput
  /\ viewInput' = v
  /\ UNCHANGED << engineVars, wireVars, viewStored, saveShown, delKeyVars,
                  tableVars, delVars >>

\* a click on #saveViewKey, up to the await of validateViewKeyOnce
ClickSaveViewKey ==
  /\ bootPc # "start" /\ saveShown /\ savePc = "idle"
  /\ IF viewInput = ""
     THEN /\ viewStored' = ""
          /\ rows' = FALSE
          /\ UNCHANGED << savePc, saveVal >>
     ELSE /\ savePc' = "validating" /\ saveVal' = viewInput
          /\ UNCHANGED << viewStored, rows >>
  /\ UNCHANGED << engineVars, PANELS_WIRED, RESP_WIRED, bootPc, attemptsInits,
                  respInits, viewInput, saveShown, delKeyVars, delEnabled, delVars >>

\* validateViewKeyOnce has answered: an invalid key is dropped; a valid key
\* is saved, and the panels are wired through wirePanelsOnce when
\* PANELS_WIRED is false, the attempts reloaded otherwise
ViewKeyValidated(ok) ==
  /\ savePc = "validating"
  /\ IF ~ok
     THEN /\ viewStored' = "" /\ viewInput' = "" /\ saveShown' = TRUE
          /\ rows' = FALSE
          /\ savePc' = "idle"
          /\ UNCHANGED << PANELS_WIRED, attemptsInits >>
     ELSE /\ viewStored' = saveVal
          /\ UNCHANGED << viewInput, saveShown, rows >>
          /\ IF ~PANELS_WIRED
             THEN /\ PANELS_WIRED' = TRUE
                  /\ attemptsInits' = Min2(attemptsInits + 1, 3)
                  /\ savePc' = "wiring"
             ELSE /\ savePc' = "reloading"
                  /\ UNCHANGED << PANELS_WIRED, attemptsInits >>
  /\ UNCHANGED << engineVars, RESP_WIRED, bootPc, saveVal, respInits, delKeyVars,
                  delEnabled, delVars >>

\* initAttemptsPanel called by wirePanelsOnce has loaded the attempts;
\* wirePanelsOnce calls initRespPanel and the click handler shows the pill
SaveWired ==
  /\ savePc = "wiring"
  /\ savePc' = "idle"
  /\ PANELS_WIRED' = TRUE /\ RESP_WIRED' = TRUE
  /\ respInits' = Min2(respInits + 1, 3)
  /\ rows' = TRUE /\ delEnabled' = updateDeleteButtonsEnabled(delInput, delStored)
  /\ saveShown' = FALSE
  /\ UNCHANGED << engineVars, bootPc, saveVal, attemptsInits, viewStored, viewInput,
                  delKeyVars, delVars >>

\* loadAttempts called by the click handler has finished
SaveReloaded ==
  /\ savePc = "reloading"
  /\ savePc' = "idle"
  /\ rows' = TRUE /\ delEnabled' = updateDeleteButtonsEnabled(delInput, delStored)
  /\ saveShown' = FALSE
  /\ UNCHANGED << engineVars, PANELS_WIRED, RESP_WIRED, bootPc, saveVal, attemptsInits,
                  respInits, viewStored, viewInput, delKeyVars, delVars >>

\* the viewer edits the #deleteKey input (after Change when the pill is shown)
TypeDeleteKey(v) ==
  /\ bootPc # "start" /\ dialog.op = "none" /\ v # delInput
  /\ delInput' = v
  /\ UNCHANGED << engineVars, wireVars, viewKeyVars, delStored, delSavePc, delSaveVal,
                  tableVars, delVars >>

\* a click on #saveDeleteKey, up to the await of validateDeleteKeyOnce
ClickSaveDeleteKey ==
  /\ bootPc # "start" /\ dialog.op = "none" /\ delSavePc = "idle"
  /\ IF delInput = ""
     THEN /\ delStored' = ""
          /\ delEnabled' = updateDeleteButtonsEnabled(delInput, "")
          /\ UNCHANGED << delSavePc, delSaveVal >>
     ELSE /\ delSavePc' = "validating" /\ delSaveVal' = delInput
          /\ UNCHANGED << delStored, delEnabled >>
  /\ UNCHANGED << engineVars, wireVars, viewKeyVars, delInput, rows, delVars >>

\* validateDeleteKeyOnce has answered
DeleteKeyValidated(ok) ==
  /\ delSavePc = "validating"
  /\ delSavePc' = "idle"
  /\ delStored' = IF ok THEN delSaveVal ELSE ""
  /\ delEnabled' = updateDeleteButtonsEnabled(delInput, delStored')
  /\ UNCHANGED << engineVars, wireVars, viewKeyVars, delInput, delSaveVal, rows,
                  delVars >>

\* if (!ok) return, after await uiConfirm(...)
Proceeds(ok) == ok

\* del and postDeleteJSON: without a delete key they throw NO_DELETE_KEY,
\* with one they hand the request to fetch
SendDelete(d, rest, how) ==
  LET dk == currentDeleteKey(delInput, delStored)
  IN  IF dk = ""
      THEN /\ keyErrors' = Min2(keyErrors + 1, 2)
           /\ deletePc' = "idle" /\ todo' = << >>
           /\ UNCHANGED delRequests
      ELSE /\ delRequests' = Append(delRequests,
                               [op |-> d.op, quiz |-> d.quiz, key |-> dk,
                                answer |-> how])
           /\ deletePc' = "sent" /\ todo' = rest
           /\ UNCHANGED keyErrors

\* a click on the Delete button of a row, on #deleteByViewer or on
\* #deleteAll, up to the await of uiConfirm; viewer and q are the values of
\* #viewerDelete and #quizDeleteScope
ClickDelete(op, q, viewer) ==
  /\ bootPc # "start" /\ dialog.op = "none" /\ deletePc = "idle" /\ delEnabled
  /\ Len(delRequests) < MaxDeletes
  /\ op = "row" => rows /\ q = "" /\ viewer = ""
  /\ op \in {"viewer", "all"} => attemptsInits > 0
  /\ op = "all" => viewer = ""
  /\ dialog' = IF (op = "viewer" /\ viewer = "") \/ (op = "all" /\ q = "")
               THEN dialog
               ELSE [op |-> op, quiz |-> q]
  /\ UNCHANGED << engineVars, wireVars, viewKeyVars, delKeyVars, tableVars,
                  returnValue, deletePc, todo, answer, delRequests,
                  keyErrors >>

\* The dialog closes: by the OK button, by the Cancel button, or by the
\* Escape key, which closes a modal dialog without setting its returnValue.
\* uiConfirm resolves with returnValue === 'ok' and the handler goes on.
DialogClose(how) ==
  /\ dialog.op # "none"
  /\ dialog' = NoDelete
  /\ returnValue' = IF how = "esc" THEN returnValue ELSE how
  /\ answer' = how
  /\ IF ~Proceeds(returnValue' = "ok")
     THEN UNCHANGED << deletePc, todo, delRequests, keyErrors >>
     ELSE IF dialog.op = "viewer" /\ dialog.quiz = ""
          THEN /\ deletePc' = "listing"
               /\ UNCHANGED << todo, delRequests, keyErrors >>
          ELSE SendDelete(dialog, << >>, how)
  /\ UNCHANGED << engineVars, wireVars, viewKeyVars, delKeyVars, tableVars >>

\* deleteByViewer without a quiz: /api/quizzes has answered, the first
\* postDeleteJSON of the loop is called
ListFetched(ok) ==
  /\ deletePc = "listing"
  /\ IF ok
     THEN SendDelete([op |-> "viewer", quiz |-> Head(QuizIds)], Tail(QuizIds), answer)
     ELSE /\ deletePc' = "idle"
          /\ UNCHANGED << todo, delRequests, keyErrors >>
  /\ UNCHANGED << engineVars, wireVars, viewKeyVars, delKeyVars, tableVars,
                  dialog, returnValue, answer >>

\* the delete request has answered: on failure the handler alerts and ends,
\* on success it sends the next request of the loop or reloads the attempts
DeleteResponded(ok) ==
  /\ deletePc = "sent"
  /\ (ok /\ todo # << >>) => Len(delRequests) < MaxDeletes
  /\ IF ~ok
     THEN /\ deletePc' = "idle" /\ todo' = << >>
          /\ UNCHANGED << delRequests, keyErrors >>
     ELSE IF todo # << >>
          THEN SendDelete([op |-> "viewer", quiz |-> Head(todo)], Tail(todo), answer)
          ELSE /\ deletePc' = "reloading"
               /\ UNCHANGED << todo, delRequests, keyErrors >>
  /\ UNCHANGED << engineVars, wireVars, viewKeyVars, delKeyVars, tableVars,
                  dialog, returnValue, answer >>

\* loadAttempts called by the delete handler has finished
DeleteReloaded ==
  /\ deletePc = "reloading"
  /\ deletePc' = "idle"
  /\ rows' = TRUE /\ delEnabled' = updateDeleteButtonsEnabled(delInput, delStored)
  /\ UNCHANGED << engineVars, wireVars, viewKeyVars, delKeyVars, dialog, returnValue,
                  todo, answer, delRequests, keyErrors >>

\* the dashboard page, with or without saved keys
DashInit ==
  /\ DashStart(ViewKeys, DeleteKeys)
  /\ EngineInit({Quiz(OneItem, FALSE, FALSE, FALSE, FALSE, 0, 0)})

\* the boot of the page and the view key: what wires the panels
WireNext ==
  \/ DOMContentLoaded
  \/ BootLoaded
  \/ ClickChangeViewKey
  \/ \E v \in ViewKeys : TypeViewKey(v)
  \/ ClickSaveViewKey
  \/ \E ok \in BOOLEAN : ViewKeyValidated(ok)
  \/ SaveWired
  \/ SaveReloaded
  \/ \E v \in DeleteKeys : TypeDeleteKey(v)

WireSpec == DashInit /\ [][WireNext]_vars

\* the boot of the page, the delete key and the deletes
DeleteNext ==
  \/ DOMContentLoaded
  \/ BootLoaded
  \/ \E v \in DeleteKeys : TypeDeleteKey(v)
  \/ ClickSaveDeleteKey
  \/ \E ok \in BOOLEAN : DeleteKeyValidated(ok)
  \/ \E op \in {"row", "viewer", "all"}, q \in {"", "q1"}, viewer \in {"", "v"} :
       ClickDelete(op, q, viewer)
  \/ \E how \in {"ok", "cancel", "esc"} : DialogClose(how)
  \/ \E ok \in BOOLEAN : ListFetched(ok)
  \/ \E ok \in BOOLEAN : DeleteResponded(ok)
  \/ DeleteReloaded

DeleteSpec == DashInit /\ [][DeleteNext]_vars

\* ------------------------------------------------------- the specification
SeekTargets == {20, Dur - 5}

Next ==
  \/ tick
  \/ Advance
  \/ UserPlay
  \/ \E input \in McqInputs \cup FibInputs, v \in ViewerInputs : ClickSubmit(input, v)
  \/ DelayFire
  \/ ClickContinue
  \/ ResumeFire
  \/ showThanksOverlay
  \/ handleFinish
  \/ \E k \in 1 .. MaxRequests : ServerHandle(k)
  \/ \E k \in 1 .. MaxRequests, status \in {"ok", "409", "error"} : Respond(k, status)

Spec == Init /\ [][Next]_vars

\* addSegment alone, on arbitrary intervals
AddSegmentCall(a, b) ==
  /\ segments' = addSegment(segments, a, b)
  /\ lastCall' = [a |-> a, b |-> b, before |-> segments]
  /\ UNCHANGED << dashVars, quiz, playerVars, watching, segStart, gateVars, ansVars, subVars,
                  uiVars, timerVars, netVars, shows, rewinds, fwdJumps,
                  successRuns, skipped, fed, moved, conflicts, reviews >>

SegNext == \E a \in 0 .. MaxT, b \in 0 .. MaxT : AddSegmentCall(a, b)

SegInit == InitWith({Quiz(OneItem, FALSE, FALSE, FALSE, FALSE, 0, 0)})

SegSpec == SegInit /\ [][SegNext]_vars

\* addSegment alone, keeping the union of the intervals it was given
FeedSegment(a, b) ==
  /\ segments' = addSegment(segments, a, b)
  /\ fed' = fed \cup Cells(a, b)
  /\ UNCHANGED << dashVars, quiz, playerVars, watching, segStart, gateVars, ansVars, subVars,
                  uiVars, timerVars, netVars, shows, rewinds, fwdJumps,
                  successRuns, skipped, lastCall, moved, conflicts, reviews >>

UnionNext == \E a \in 0 .. MaxT, b \in 0 .. MaxT : FeedSegment(a, b)

UnionSpec == SegInit /\ [][UnionNext]_vars

\* the viewer seeks while watching; nothing is submitted
SeekInit == InitWith(SeekQuizzes)

SeekNext ==
  \/ tick
  \/ Advance
  \/ \E q \in SeekTargets : UserSeek(q)
  \/ (st = "PAUSED" /\ UserPlay)
  \/ \E input \in McqInputs : ClickSubmit(input, "")
  \/ ClickContinue
  \/ ResumeFire

SeekSpec == SeekInit /\ [][SeekNext]_vars

\* playing, pausing and answering a video trimmed at endAt, without seeks
WatchInit == InitWith(WatchQuizzes)

WatchNext ==
  \/ tick
  \/ Advance
  \/ UserPause
  \/ UserPlay
  \/ \E input \in McqInputs : ClickSubmit(input, "")
  \/ ClickContinue
  \/ ResumeFire

WatchSpec == WatchInit /\ [][WatchNext]_vars

\* the viewer seeks back to the start and forward to the end of a video
\* whose only item may be reviewed
ReviewTargets == {0, Dur - 5}

ReviewInit == InitWith(ReviewQuizzes)

ReviewNext ==
  \/ tick
  \/ Advance
  \/ \E q \in ReviewTargets : UserSeek(q)
  \/ (st = "PAUSED" /\ UserPlay)
  \/ \E input \in McqInputs : ClickSubmit(input, "")
  \/ ClickContinue
  \/ ResumeFire

ReviewSpec == ReviewInit /\ [][ReviewNext]_vars

\* the one-item quiz played, sought in and answered
ScenarioTargets == {15, 20}

ScenarioInit == InitWith(ScenarioQuizzes)

ScenarioNext ==
  \/ tick
  \/ Advance
  \/ \E q \in ScenarioTargets : UserSeek(q)
  \/ (st = "PAUSED" /\ UserPlay)
  \/ \E input \in McqInputs : ClickSubmit(input, "")
  \/ DelayFire
  \/ ResumeFire

ScenarioSpec == ScenarioInit /\ [][ScenarioNext]_vars

\* an mcq item that comes due after the identity prompt; submissions fail
\* or succeed
RejectInit == InitWith(RejectQuizzes)

RejectNext ==
  \/ tick
  \/ Advance
  \/ UserPlay
  \/ \E input \in McqInputs, v \in ViewerInputs : ClickSubmit(input, v)
  \/ ClickContinue
  \/ ResumeFire
  \/ showThanksOverlay
  \/ handleFinish
  \/ \E k \in 1 .. MaxRequests : ServerHandle(k)
  \/ \E k \in 1 .. MaxRequests, status \in {"ok", "409", "error"} : Respond(k, status)

RejectSpec == RejectInit /\ [][RejectNext]_vars

\* the times at which the coverage is started, stopped and sampled in the
\* specification PercentSpec
PercentTimes ==
  {0, 10, 25, 300, LongDur - 30, LongDur - 21, LongDur - 20, LongDur}

\* startWatch(at) with the playhead at at
StartAt(at) ==
  /\ SetCov(startWatch(Cov, at))
  /\ pos' = at
  /\ UNCHANGED << dashVars, quiz, st, sampled, seeks, replays, gateVars, ansVars, subVars,
                  uiVars, timerVars, netVars, histVars >>

\* stopWatch(at) with the playhead at at
StopAt(at) ==
  /\ SetCov(stopWatch(Cov, at))
  /\ pos' = at
  /\ UNCHANGED << dashVars, quiz, st, sampled, seeks, replays, gateVars, ansVars, subVars,
                  uiVars, timerVars, netVars, histVars >>

PercentInit == InitWith(PercentQuizzes)

PercentNext ==
  \/ \E at \in PercentTimes : StartAt(at)
  \/ \E at \in PercentTimes : StopAt(at)

PercentSpec == PercentInit /\ [][PercentNext]_vars

\* items of every type are answered, with every selection of a checkbox item
GradeInit == InitWith(GradeQuizzes)

GradeNext ==
  \/ tick
  \/ Advance
  \/ UserPlay
  \/ \E input \in McqInputs \cup FibInputs \cup CheckboxInputs \cup PollInputs
                    \cup FrInputs,
        v \in ViewerInputs : ClickSubmit(input, v)
  \/ ClickContinue
  \/ ResumeFire

GradeSpec == GradeInit /\ [][GradeNext]_vars

\* items declared out of time order, watched, answered and watched again
OrderInit == InitWith(OrderQuizzes)

OrderNext ==
  \/ tick
  \/ Advance
  \/ UserPlay
  \/ \E input \in McqInputs : ClickSubmit(input, "")
  \/ ClickContinue
  \/ ResumeFire

OrderSpec == OrderInit /\ [][OrderNext]_vars

\* ------------------------------------------------------------------ claims
\* maybeTrigger opened the overlay of item i in this step
ItemOpened(i) ==
  ~overlayOpen /\ overlayOpen' /\ view' \in {"item", "review"} /\ currentItem' = i

\* reviewedThisPass as maybeTrigger finds it in a tick: the tick empties it
\* first when it sees a backward jump with reviewOnRewatch
PassAtCall ==
  IF quiz.reviewOnRewatch /\ pos + JumpBack < lastNow THEN {} ELSE reviewedThisPass

\* C1: maybeTrigger opens the overlay of an item that has a stored answer
\* only when reviewOnRewatch is true, review mode is active and the item is
\* not yet in reviewedThisPass.
C1_AnsweredOnlyInReview ==
  [][ \A i \in ItemIdx :
        (ItemOpened(i) /\ Items[i].id \in DOMAIN answered)
        => (quiz.reviewOnRewatch /\ reviewMode' /\ Items[i].id \notin PassAtCall) ]_vars

\* an answered item is open for review
C1_Witness ==
  /\ overlayOpen /\ view = "review" /\ reviewMode
  /\ currentItem # 0 /\ Items[currentItem].id \in DOMAIN answered

\* C2: outside review mode an item's overlay is opened at most once before
\* an answer for the item is stored.
C2_ShownOnceWhileUnanswered == \A id \in ItemIds : shows[id] <= 1

\* C3: at most one submission request is outstanding at any time, and a
\* submit invoked while submitting is true dispatches no request.
C3_OneRequestInFlight ==
  /\ [](Len(net) <= 1 /\ (net # << >> => submitting))
  /\ [][submitting => requests' = requests]_vars

\* a retry is in flight
C3_Witness == Len(net) = 1 /\ Len(requests) >= 2 /\ submitting

\* C4: once a submission is answered with success or with a 409 conflict,
\* submittedOnce is true; it stays true, and no further request is dispatched.
C4_SubmittedOnceSticky ==
  [][ /\ (\E k \in 1 .. Len(net) : Respond(k, "ok") \/ Respond(k, "409"))
         => submittedOnce'
      /\ submittedOnce => (submittedOnce' /\ requests' = requests) ]_vars

\* a retry was answered and the attempt counts as submitted
C4_Witness == submittedOnce /\ Len(requests) >= 2 /\ net = << >>

\* C5: the success path runs at most once in a session, and an attempt that
\* the store has recorded keeps its points and max_points, whatever a retry
\* with the same nonce carries.
C5_SuccessOnce ==
  /\ [](successRuns <= 1)
  /\ [][ \A n \in DOMAIN server : n \in DOMAIN server' /\ server'[n] = server[n] ]_vars

\* the store recorded the first request, the retry carried other points and
\* was answered with a conflict
C5_Witness ==
  /\ successRuns = 1 /\ Len(requests) >= 2 /\ net = << >>
  /\ requests[1].points # requests[2].points
  /\ ATTEMPT_NONCE \in DOMAIN server
  /\ server[ATTEMPT_NONCE].points = requests[1].points

\* C6: every request dispatched in a session carries the nonce generated at
\* the start of the session, which is never reassigned.
C6_SameNonce ==
  /\ [](\A i \in 1 .. Len(requests) : requests[i].nonce = ATTEMPT_NONCE)
  /\ [][ATTEMPT_NONCE' = ATTEMPT_NONCE]_vars

\* a retry was dispatched after a failure
C6_Witness == Len(requests) >= 2 /\ ~submittedOnce

\* C7: the corrective rewind of the seek guard is issued at most once in a
\* session, and warnedSeekOnce never returns to false.
C7_RewindOnce ==
  /\ [](rewinds <= 1)
  /\ [][warnedSeekOnce => warnedSeekOnce']_vars

\* a second forward jump was seen after the rewind
C7_Witness == rewinds = 1 /\ fwdJumps >= 2 /\ warnedSeekOnce

\* C8: on a tick where the ceiling c = nextGateTimeAfter(lastNow) is finite
\* and now > c + 0.4, and the one-time rewind does not fire, the player is
\* sent to max(0, c - 0.05), no overlay is opened and lastNow is unchanged.
C8_CeilingSeek ==
  [][ LET c == nextGateTimeAfter(lastNow, reviewMode')
      IN  ( /\ tick
            /\ ~(~warnedSeekOnce /\ pos > lastNow + WarnJump /\ ~overlayOpen)
            /\ c < Inf /\ pos > c + CapSlack )
          => ( /\ pos' = Max2(0, c - CapBack)
               /\ overlayOpen' = overlayOpen /\ currentItem' = currentItem
               /\ view' = view /\ lastNow' = lastNow ) ]_vars

\* the player was sent back below an unanswered item, no overlay open
C8_Witness ==
  /\ ~overlayOpen /\ seeks > 0 /\ warnedSeekOnce
  /\ \E i \in ItemIdx :
       /\ Items[i].id \notin DOMAIN answered
       /\ pos = Max2(0, Items[i].t - CapBack) /\ lastNow < Items[i].t

\* C9: no watched segment contains a part of an interval that was skipped
\* by a forward jump and not played.
C9_NoSkippedCellCovered ==
  \A k \in 1 .. Len(segments) :
    \A c \in skipped : ~(segments[k][1] <= c /\ c < segments[k][2])

\* C10: after every addSegment call the segments are sorted by start, each
\* has end > start, consecutive segments are more than the merge tolerance
\* apart, and a call with b <= a changes nothing.
C10_SegmentsNormalised ==
  /\ \A k \in 1 .. Len(segments) : segments[k][2] > segments[k][1]
  /\ \A k \in 1 .. Len(segments) - 1 :
       /\ segments[k][1] <= segments[k + 1][1]
       /\ segments[k + 1][1] - segments[k][2] > tol
  /\ (lastCall.b <= lastCall.a) => (segments = lastCall.before)

\* a call coalesced two segments that were apart
C10_Witness ==
  /\ Len(lastCall.before) >= 2 /\ Len(segments) < Len(lastCall.before)
  /\ lastCall.b > lastCall.a

\* the cells that the segments cover
CoveredCells(segs) == UNION { Cells(segs[k][1], segs[k][2]) : k \in 1 .. Len(segs) }

\* the cells of the gaps of at most tol between two neighbouring cells of cs
Bridged(cs) ==
  { c \in (0 .. Dur) \ cs :
      \E l \in cs, h \in cs :
        /\ l < c /\ c < h /\ h - (l + 1) <= tol
        /\ \A x \in cs : ~(l < x /\ x < h) }

\* C11 (as stated): the total duration of the segments equals the measure
\* of the union of the intervals given to addSegment.
C11_TotalIsUnionMeasure == SumSegments(segments) = Cardinality(fed)

\* C11 (amended): the segments cover the union of the intervals given to
\* addSegment together with every gap of at most the merge tolerance
\* between them, and their total duration is the measure of that set.
C11_TotalIsBridgedUnion ==
  /\ CoveredCells(segments) = fed \cup Bridged(fed)
  /\ SumSegments(segments) = Cardinality(fed \cup Bridged(fed))

\* a gap was bridged while another one was kept
C11_Witness ==
  /\ Len(segments) >= 2
  /\ Bridged(fed) # {}
  /\ SumSegments(segments) > Cardinality(fed)

\* watchedPercent as updateProgress shows it, in hundredths of a percent
WatchedPct == watchedPercent(Cov, pos, Dur)

\* C12: while the playhead was never moved by a seek or a restart, no step
\* (tick, playback, pause, overlay) lowers watchedPercent.
C12_PercentMonotone ==
  [][~moved' => WatchedPct' >= WatchedPct]_vars

\* played, paused and resumed without a seek, part of the video watched
C12_Witness ==
  /\ ~moved /\ st = "PLAYING" /\ watching
  /\ segments # << >> /\ pos > segStart
  /\ WatchedPct > 0

\* every cell below the playhead is in a closed or in the open segment
AllPlayed ==
  CoveredCells(segments) \cup (IF watching THEN Cells(segStart, pos) ELSE {})
    = Cells(0, pos)

\* C13: with endAt below the duration and everything up to the playhead
\* played, the first tick within 1 s of endAt (no item due on it) sets
\* watchedToEnd, reports 100 percent and opens the identity overlay when
\* requireIdentity is true, with the playhead short of the duration; a tick
\* further than that from endAt and below 97 percent does not.
C13_TrimmedEndFires ==
  [][ (tick /\ quiz.endAt > 0 /\ quiz.endAt < Dur /\ ~moved /\ AllPlayed
            /\ ~watchedToEnd /\ ~overlayOpen /\ st = "PLAYING"
            /\ ID_KEY \notin DOMAIN answered
            /\ \A i \in ItemIdx : Items[i].t <= pos => Items[i].id \in DOMAIN answered)
      => IF pos >= quiz.endAt - CloseEnough
         THEN /\ watchedToEnd' /\ WatchedPct' = 10000 /\ pos' < Dur
              /\ quiz.requireIdentity => (overlayOpen' /\ view' = "identity")
         ELSE pos * 100 < CloseEnoughPct * quiz.endAt
              => (~watchedToEnd' /\ ~overlayOpen') ]_vars

\* the identity overlay is open 1 s before endAt, after playback from 0
C13_Witness ==
  /\ quiz.endAt > 0 /\ pos = PlayStep * 2 /\ pos < quiz.endAt /\ ~moved
  /\ watchedToEnd /\ overlayOpen /\ view = "identity"

\* C14: a tick with no overlay open, on which requireIdentity is true, no
\* identity answer is stored, nothing was submitted and the coverage has
\* reached the watched-to-end condition, opens the identity overlay (unless
\* it returns early on a seek or opens a due item).
C14_IdentityOpensOnCoverage ==
  [][ (tick /\ quiz.requireIdentity /\ ~overlayOpen /\ st = "PLAYING"
            /\ ID_KEY \notin DOMAIN answered /\ ~submitting /\ ~submittedOnce
            /\ pos <= lastNow + JumpFwd /\ pos + JumpBack >= lastNow
            /\ (\A i \in ItemIdx : Items[i].id \in DOMAIN answered)
            /\ AllPlayed /\ pos >= effectiveEnd(Dur) - CloseEnough)
      => (overlayOpen' /\ view' = "identity") ]_vars

\* C15: a request of the identity overlay answered with success or with 409
\* marks the attempt submitted, keeps submitting set (it is not the error
\* path), closes the identity overlay and schedules the thanks overlay; a
\* scheduled thanks overlay is discharged only by the thanks overlay opening.
C15_ConflictIsSuccess ==
  [][ /\ \A k \in 1 .. Len(net), status \in {"ok", "409"} :
           (Respond(k, status) /\ net[k].path = "identity")
             => (submittedOnce' /\ submitting' /\ ~overlayOpen' /\ thanksTimer' # 0)
      /\ thanksTimer # 0
           => (thanksTimer' # 0 \/ (view' = "thanks" /\ overlayOpen')) ]_vars

\* the thanks overlay is open after a 409 answer
C15_Witness ==
  /\ conflicts /\ successRuns = 1
  /\ submittedOnce /\ overlayOpen /\ view = "thanks"

\* C16: a failed request of the identity overlay leaves the identity overlay
\* open, resets submitting and leaves submittedOnce false.
C16_FailureKeepsIdentityOpen ==
  [][ \A k \in 1 .. Len(net) :
        (Respond(k, "error") /\ net[k].path = "identity")
          => (overlayOpen' /\ view' = "identity" /\ ~submitting' /\ ~submittedOnce') ]_vars

\* the items due at the sampled position when maybeTrigger runs in this
\* step: unanswered, or in review mode and not reviewed in this pass
DueNow ==
  { i \in ItemIdx :
      /\ Items[i].t <= pos
      /\ \/ Items[i].id \notin DOMAIN answered
         \/ (quiz.reviewOnRewatch /\ reviewMode'
             /\ Items[i].id \notin reviewedThisPass) }

\* C17: a tick that reaches maybeTrigger (no overlay open, no seek back, no
\* backward jump observed) opens the overlay of the due item that comes
\* first in the item list, whatever the trigger times, and returns without
\* advancing lastNow; with no item due it opens no item overlay.
C17_FirstInListOrder ==
  [][ (tick /\ ~overlayOpen /\ pos' = pos /\ pos + JumpBack >= lastNow)
      => IF DueNow = {}
         THEN /\ currentItem' = currentItem /\ view' \in {view, "identity"}
              /\ overlayOpen' => view' = "identity"
         ELSE /\ overlayOpen' /\ view' \in {"item", "review"}
              /\ currentItem' \in DueNow
              /\ \A j \in DueNow : currentItem' <= j
              /\ lastNow' = lastNow ]_vars

\* the first declared item is open while the second, with the earlier
\* trigger time, is due and unanswered
C17_Witness ==
  /\ overlayOpen /\ view = "item" /\ currentItem = 1
  /\ Len(Items) = 2 /\ Items[2].t < Items[1].t /\ Items[1].t <= pos
  /\ Items[2].id \notin DOMAIN answered

\* the gate time as described: the least t >= now over the items that are
\* unanswered or, while reviewing, not yet reviewed in this pass
DescribedGate(now) ==
  LET reviewing == quiz.reviewOnRewatch /\ reviewMode
      gates == { Items[i].t : i \in { j \in ItemIdx :
                   /\ Items[j].t >= now
                   /\ \/ Items[j].id \notin DOMAIN answered
                      \/ (reviewing /\ Items[j].id \notin reviewedThisPass) } }
  IN  IF gates = {} THEN Inf
      ELSE CHOOSE t \in gates : \A u \in gates : t <= u

\* C18: for every time now, nextGateTimeAfter(now) is the least trigger time
\* t >= now of an item that is unanswered or, in review mode, not yet in
\* reviewedThisPass, and +infinity without such an item.
C18_GateSkipsReviewed ==
  \A now \in 0 .. Dur : nextGateTimeAfter(now, reviewMode) = DescribedGate(now)

\* C19: the first tick that observes a forward jump (now > lastNow + 1.25)
\* with no overlay open seeks back to lastNow, sets warnedSeekOnce and does
\* nothing else: review mode, overlay and lastNow are as before.
C19_FirstJumpRewinds ==
  [][ (tick /\ ~overlayOpen /\ fwdJumps = 0 /\ pos > lastNow + JumpFwd)
      => ( /\ pos' = Max2(0, lastNow) /\ warnedSeekOnce'
           /\ lastNow' = lastNow
           /\ reviewMode' = reviewMode /\ reviewExitTime' = reviewExitTime
           /\ overlayOpen' = overlayOpen /\ currentItem' = currentItem ) ]_vars

\* the parts that hold on every tick: a backward jump observed with
\* reviewOnRewatch true enters review mode with reviewExitTime = peakTime,
\* review mode does not end before a tick with now >= reviewExitTime - 0.1,
\* and with reviewOnRewatch false review mode is never entered and no
\* answered item is opened
ReviewEntryAndOff ==
  /\ (tick /\ quiz.reviewOnRewatch /\ pos + JumpBack < lastNow)
       => (reviewMode' /\ reviewExitTime' = peakTime /\ peakTime' = peakTime)
  /\ (reviewMode /\ ~reviewMode')
       => (tick /\ pos >= reviewExitTime' - ReviewSlack)
  /\ ~quiz.reviewOnRewatch
       => /\ ~reviewMode'
          /\ \A i \in ItemIdx : ItemOpened(i) => Items[i].id \notin DOMAIN answered

\* C20 as stated: review mode ends at the first tick with
\* now >= reviewExitTime - 0.1, whatever else the tick does.
C20_ReviewEndsAtFirstTick ==
  [][ /\ ReviewEntryAndOff
      /\ (tick /\ reviewMode /\ pos >= reviewExitTime' - ReviewSlack)
           => ~reviewMode' ]_vars

\* C20: with reviewOnRewatch true a tick observing a backward jump enters
\* review mode with reviewExitTime = peakTime; review mode ends at the first
\* tick with now >= reviewExitTime - 0.1 on which the one-time rewind does
\* not fire, and not before; with reviewOnRewatch false review mode is never
\* entered and answered items are never shown again.
C20_ReviewEndsUnlessRewind ==
  [][ /\ ReviewEntryAndOff
      /\ (tick /\ reviewMode /\ pos >= reviewExitTime' - ReviewSlack
               /\ ~(~warnedSeekOnce /\ pos > lastNow + WarnJump /\ ~overlayOpen))
           => ~reviewMode' ]_vars

\* review mode was entered after seeking back and has ended at its exit time
C20_Witness ==
  /\ quiz.reviewOnRewatch /\ seeks > 0 /\ reviewExitTime > 0
  /\ ~reviewMode /\ lastNow >= reviewExitTime - ReviewSlack /\ lastNow = pos

\* C21: between two moves of the playhead to an earlier position, and while
\* review mode lasts, the review overlay of an item is opened at most once.
C21_ReviewedOncePerPass ==
  \A i \in ItemIds : reviews[i] <= 1

\* C22: the value stored for an item id changes only by a submit made while
\* the overlay of that same item is shown.
C22_StoredAnswerFrozen ==
  [][ \A id \in (DOMAIN answered) \ {ID_KEY} :
        (id \notin DOMAIN answered' \/ answered'[id] # answered[id])
          => ( /\ overlayOpen /\ view \in {"item", "review"}
               /\ currentItem # 0 /\ Items[currentItem].id = id ) ]_vars

\* C23: a click on #submit with no choice selected, while the overlay of an
\* mcq item is shown, stores nothing, leaves the overlay open on the item,
\* leaves reviewedThisPass and the playback as they are and starts nothing
\* else: no timer and no request.
C23_EmptySelectionRejected ==
  [][ \A v \in ViewerInputs :
        ( /\ ClickSubmit("", v)
          /\ view = "item" /\ currentItem # 0 /\ Items[currentItem].type = "mcq" )
        => ( /\ answered' = answered /\ meta' = meta
             /\ overlayOpen' /\ currentItem' = currentItem /\ view' = view
             /\ reviewedThisPass' = reviewedThisPass
             /\ pos' = pos /\ st' = st
             /\ resumeTimer' = resumeTimer /\ delayTimer' = delayTimer
             /\ submitting' = submitting /\ net' = net ) ]_vars

\* the id of the item whose overlay was opened last
CurId == Items[currentItem].id

\* a click on #submit of an item overlay with a selection or a text
ValidItemSubmit(input) ==
  /\ ClickSubmit(input, idInput)
  /\ view = "item" /\ currentItem # 0
  /\ ~(Items[currentItem].type = "mcq" /\ input = "")

\* C24: a valid submit of an item stores the answer in the step in which it
\* acts; with requireContinue true the overlay stays open with #continue
\* shown and, once the answer is stored, is closed by a click on #continue
\* only; with requireContinue false it closes at once (delay 0) or waits
\* for the delay, and the resume of the playback is scheduled.
C24_SubmitThenClose ==
  [][ /\ \A input \in McqInputs \cup FibInputs :
           ValidItemSubmit(input)
             => /\ CurId \in DOMAIN answered'
                /\ quiz.requireContinue => (overlayOpen' /\ ~contHidden')
                /\ (~quiz.requireContinue /\ quiz.feedbackDelaySeconds = 0)
                     => (~overlayOpen' /\ resumeTimer' # 0)
                /\ (~quiz.requireContinue /\ quiz.feedbackDelaySeconds > 0)
                     => (overlayOpen' /\ delayTimer')
      /\ ( /\ quiz.requireContinue
           /\ overlayOpen /\ view = "item" /\ currentItem # 0
           /\ CurId \in DOMAIN answered /\ ~overlayOpen' )
         => ClickContinue ]_vars

\* the durations watchedPercent is asked for
PercentDurs == {0, Dur, LongDur}

\* the seconds watched up to the effective end e: the closed segments and
\* the open one, at most e
SecondsUpTo(e) ==
  LET total == SumSegments(segments)
                 + (IF watching /\ pos > segStart THEN pos - segStart ELSE 0)
  IN  IF e # 0 /\ total > e THEN e ELSE total

\* C25: watchedPercent is 0 when the effective end is not positive, 100 when
\* at most 1 s is uncovered or the raw percentage is at least 97, and
\* otherwise the raw percentage (here in whole hundredths), within [0, 100].
C25_PercentSnaps ==
  \A dur \in PercentDurs :
    LET e   == effectiveEnd(dur)
        sec == SecondsUpTo(e)
        r   == watchedPercent(Cov, pos, dur)
    IN  IF e <= 0 THEN r = 0
        ELSE IF e - sec <= CloseEnough \/ sec * 100 >= CloseEnoughPct * e
             THEN r = 10000
             ELSE /\ 0 <= r /\ r <= 10000
                  /\ r * e <= sec * 10000 /\ sec * 10000 < (r + 1) * e

\* 97 percent of the long video is covered with more than 1 s left, and the
\* percentage is 100
C25_Witness ==
  /\ quiz.endAt = 0
  /\ LongDur - SecondsUpTo(LongDur) > CloseEnough
  /\ watchedPercent(Cov, pos, LongDur) = 10000
  /\ segments # << >>

\* the checkbox grade as described, in half points
DescribedGrade(corr, sel) ==
  IF corr # {} /\ corr \subseteq sel /\ sel \subseteq corr THEN 2
  ELSE IF sel \cap corr # {} THEN 1
  ELSE 0

\* C26: for every set of correct options and every selection the checkbox
\* grade is 1 when exactly the correct options are selected and there is at
\* least one, else 0.5 when a correct option is selected, else 0; and every
\* stored checkbox answer is graded so.
C26_CheckboxGrade ==
  /\ \A corr \in SUBSET Options, sel \in SUBSET Options :
       gradeCheckbox(corr, sel) = DescribedGrade(corr, sel)
  /\ \A i \in ItemIdx :
       (Items[i].type = "checkbox" /\ Items[i].id \in DOMAIN answered)
         => gradeItem(Items[i], answered[Items[i].id])
              = DescribedGrade(Items[i].correct, answered[Items[i].id].v)

\* two of three correct options and a wrong one are stored: half a point
C26_Witness ==
  /\ Items[1].type = "checkbox" /\ Items[1].correct = {"a", "b", "c"}
  /\ "i1" \in DOMAIN answered /\ answered["i1"].v = {"a", "b", "w"}
  /\ gradeItem(Items[1], answered["i1"]) = 1

\* the indices of the items of a scorable type
ScorableIdx == { i \in ItemIdx : Items[i].type \in {"mcq", "checkbox", "fib"} }

\* the sum of the grades of the items with index in S, in half points
RECURSIVE GradeSum(_)
GradeSum(S) ==
  IF S = {} THEN 0
  ELSE LET i == CHOOSE j \in S : TRUE
       IN  gradeItem(Items[i], answered[Items[i].id]) + GradeSum(S \ {i})

\* the answers stored for the items with index in S
AnswersOf(S) ==
  [ id \in { Items[i].id : i \in S } \cap DOMAIN answered |-> answered[id] ]

\* C27: max is the number of scorable items, answered or not; points is the
\* sum of the grades of the answered scorable items; the percentage is
\* points/max*100 rounded to two decimals, 0 when max is 0; the answers of
\* other items and the identity entry change nothing.
C27_Totals ==
  LET t == computeTotals(answered)
  IN  /\ t.max = 2 * Cardinality(ScorableIdx)
      /\ t.pts = GradeSum({ i \in ScorableIdx : Items[i].id \in DOMAIN answered })
      /\ IF t.max = 0 THEN t.pct = 0
         ELSE /\ 2 * (t.pct * t.max - t.pts * 10000) <= t.max
              /\ 2 * (t.pts * 10000 - t.pct * t.max) <= t.max
      /\ computeTotals(AnswersOf(ScorableIdx)) = t

\* one of three scorable items is answered, for half a point, next to
\* answers of items that are not scored: 0.5/3 is 16.67 percent
C27_Witness ==
  /\ Cardinality(ScorableIdx) = 3
  /\ "i1" \in DOMAIN answered /\ "i2" \in DOMAIN answered
  /\ "i5" \notin DOMAIN answered
  /\ computeTotals(answered) = [pts |-> 1, max |-> 6, pct |-> 1667]

\* the one item of the scenario is not answered and no overlay is open
ItemPending == ~overlayOpen /\ "i1" \notin DOMAIN answered

\* what the scenario says of the answer and of the closing of the overlay:
\* an overlay opens on the item only, at a tick with now >= t; the correct
\* choice is stored with feedback "Correct." and totals 1/1 (100%); the
\* overlay closes at once (delay 0) or when the delay has passed, never
\* before the answer is stored, and the playback is resumed
ScenarioAnswerAndClose ==
  /\ (~overlayOpen /\ overlayOpen')
       => ( /\ tick /\ pos >= Items[1].t /\ "i1" \notin DOMAIN answered
            /\ view' = "item" /\ currentItem' = 1 )
  /\ ValidItemSubmit("a")
       => ( /\ "i1" \in DOMAIN answered' /\ answered'["i1"].v = "a"
            /\ feedbackText(Items[1], answered'["i1"]) = "Correct."
            /\ computeTotals(answered') = [pts |-> 2, max |-> 2, pct |-> 10000]
            /\ (quiz.feedbackDelaySeconds = 0) => (~overlayOpen' /\ resumeTimer' # 0)
            /\ (quiz.feedbackDelaySeconds > 0) => (overlayOpen' /\ delayTimer') )
  /\ (overlayOpen /\ ~overlayOpen')
       => ( /\ "i1" \in DOMAIN answered' /\ resumeTimer' # 0
            /\ (quiz.feedbackDelaySeconds > 0) => (delayTimer /\ ~delayTimer') )
  /\ (resumeTimer # 0 /\ resumeTimer' = 0) => st' = "PLAYING"

CapNow == nextGateTimeAfter(lastNow, ReviewExit(reviewMode, pos, reviewExitTime))

\* the seek-warning condition and the ceiling condition of tick both hold
BothGuardsHold ==
  /\ ~warnedSeekOnce /\ pos > lastNow + WarnJump /\ ~overlayOpen
  /\ CapNow < Inf /\ pos > CapNow + CapSlack

\* C29: a tick on which the one-time seek-warning condition and the ceiling
\* condition both hold seeks to lastNow, whatever the ceiling is, and
\* returns early: the warning is spent, nothing is opened and lastNow,
\* review mode and the overlay are left as they were.
C29_WarningBeforeCeiling ==
  [][ (tick /\ BothGuardsHold)
      => ( /\ pos' = Max2(0, lastNow)
           /\ warnedSeekOnce' /\ rewinds' = rewinds + 1
           /\ lastNow' = lastNow /\ reviewMode' = reviewMode
           /\ overlayOpen' = overlayOpen /\ currentItem' = currentItem ) ]_vars

\* the warning rewind has just been issued from a position past the ceiling
\* of the unanswered item: the playhead is back at lastNow
C29_Witness ==
  /\ rewinds = 1 /\ warnedSeekOnce /\ seeks = 1 /\ sampled
  /\ answered = << >> /\ ~overlayOpen
  /\ pos = lastNow /\ peakTime > Items[1].t + CapSlack
  /\ CapNow = Items[1].t /\ pos # CeilingTarget(CapNow)

\* what a failed first request leaves of the submission flags and the overlay
FailureKeepsFlags ==
  \A k \in 1 .. Len(net) :
    (Respond(k, "error") /\ Len(requests) = 1)
      => ( /\ ~submitting' /\ submittedOnce' = submittedOnce /\ ~submittedOnce'
           /\ overlayOpen' = overlayOpen /\ view' = view )

\* C30: when the first request of the page fails, the engine state is the
\* one before the attempt: answered has no identity entry and no __meta
\* entry, the overlay and submittedOnce are unchanged and submitting is false.
C30_FailureRestoresState ==
  [][ /\ FailureKeepsFlags
      /\ \A k \in 1 .. Len(net) :
           (Respond(k, "error") /\ Len(requests) = 1)
             => (ID_KEY \notin DOMAIN answered' /\ ~meta') ]_vars

\* the tick samples a player that is not playing, or an overlay is open
IdleTick == tick /\ (st # "PLAYING" \/ overlayOpen)

\* C31: a tick that finds the player not playing or an overlay open closes
\* the open segment; and while no segment is open, no step other than a tick
\* of a playing player without overlay opens one or changes watchedSeconds,
\* so that watchedSeconds is the same at two consecutive such ticks.
C31_CoverageOnlyWhilePlaying ==
  [][ /\ IdleTick => ~watching'
      /\ (~watching /\ ~(tick /\ st = "PLAYING" /\ ~overlayOpen))
           => ( /\ ~watching'
                /\ watchedSeconds(Cov', pos', Dur) = watchedSeconds(Cov, pos, Dur) ) ]_vars

\* a tick has closed a segment that was open under the thanks overlay
C31_Witness ==
  /\ overlayOpen /\ view = "thanks" /\ st = "PLAYING" /\ sampled
  /\ ~watching /\ segments # << >>
  /\ segments[Len(segments)][2] = pos /\ pos > lastNow

\* the identity overlay is opened in this step
IdentityOpens ==
  /\ overlayOpen' /\ view' = "identity"
  /\ ~(overlayOpen /\ view = "identity")

\* C32: the identity overlay is opened, by the tick or by the ENDED
\* notification, only when requireIdentity is true, no identity answer is
\* stored, no overlay is open, no submission is in flight and none has
\* succeeded; it is never opened after a successful submission.
C32_IdentityOpensOnlyWhenDue ==
  [][ IdentityOpens
      => ( /\ tick \/ Advance
           /\ quiz.requireIdentity /\ ID_KEY \notin DOMAIN answered
           /\ ~overlayOpen /\ ~submitting /\ ~submittedOnce ) ]_vars

\* after a successful submission the thanks overlay was closed and the
\* video has ended again: the identity overlay stays closed
C32_Witness ==
  /\ quiz.requireIdentity /\ submittedOnce /\ successRuns = 1
  /\ ID_KEY \in DOMAIN answered
  /\ ~overlayOpen /\ view = "thanks" /\ st = "ENDED" /\ watchedToEnd

\* C33: every delete request was confirmed with OK in the dialog and carries
\* a non-empty delete key, and a call without a key throws NO_DELETE_KEY
\* without sending a request.
C33_DeletesConfirmedAndKeyed ==
  [][ /\ \A i \in 1 .. Len(delRequests') :
           delRequests'[i].answer = "ok" /\ delRequests'[i].key # ""
      /\ (keyErrors' # keyErrors) => (delRequests' = delRequests) ]_vars

\* C34: initAttemptsPanel and initRespPanel run at most once per page load.
C34_PanelsWiredOnce ==
  attemptsInits <= 1 /\ respInits <= 1

\* C35: when a tick that found no overlay open has run to its end, where it
\* sets lastNow to the sampled position, and no overlay is open, every item
\* with trigger time t <= lastNow has a stored answer.
C35_NoUnansweredItemBehind ==
  [][ (tick /\ ~overlayOpen /\ ~overlayOpen' /\ lastNow' = pos)
      => \A i \in ItemIdx :
           Items[i].t <= lastNow' => Items[i].id \in DOMAIN answered' ]_vars

\* a tick has accepted a position past the item, which is answered, after a
\* seek of the viewer
C35_Witness ==
  /\ seeks > 0 /\ sampled /\ ~overlayOpen
  /\ lastNow = pos /\ lastNow > Items[1].t
  /\ Items[1].id \in DOMAIN answered

\* the cells of the closed segments and of the open segment
SegmentCells ==
  UNION { Cells(segments[k][1], segments[k][2]) : k \in 1 .. Len(segments) }
    \cup (IF watching THEN Cells(segStart, pos) ELSE {})

\* the cells of SegmentCells below the effective end
CoveredBelowEnd == Cardinality({ c \in SegmentCells : c < effectiveEnd(Dur) })

\* C36: at every tick watchedSeconds is at most the measure of the union of
\* the closed segments and the open segment, and the coverage rule of tick
\* sets watchedToEnd only when that union leaves at most 1 s or 3 percent of
\* the effective end uncovered.
C36_NoStretchCountedTwice ==
  [][ tick
      => ( /\ watchedSeconds(Cov, pos, Dur) <= Cardinality(SegmentCells)
           /\ (~watchedToEnd /\ watchedToEnd')
                => ( \/ effectiveEnd(Dur) - CoveredBelowEnd' <= CloseEnough
                     \/ CoveredBelowEnd' * 100 >= CloseEnoughPct * effectiveEnd(Dur) ) ) ]_vars

\* C37: whenever a segment is open at the end of a tick, its start segStart
\* is not ahead of the position sampled on that tick.
C37_OpenSegmentStartsBehind ==
  [][ (tick /\ watching') => segStart' <= pos ]_vars

\* C38: the delayed playVideo of closeOverlayAndResume is never issued while
\* an overlay (item, identity or thanks) is open.
C38_NoPlayUnderOverlay ==
  [][ ResumeFire => ~overlayOpen ]_vars

\* every item whose trigger time is at or before the effective end is answered
DueItemsAnswered ==
  \A i \in ItemIdx :
    Items[i].t <= effectiveEnd(Dur) => Items[i].id \in DOMAIN answered

\* C39: no submission request is dispatched and the identity overlay is not
\* opened while an item whose trigger time is at or before the effective end
\* is unanswered.
C39_NoFinishWithItemsPending ==
  [][ (Len(requests') > Len(requests) \/ IdentityOpens) => DueItemsAnswered ]_vars

\* a step that opens an item overlay
ItemOverlayOpens ==
  /\ overlayOpen' /\ view' = "item"
  /\ ~(overlayOpen /\ view = "item")

\* C40: once an attempt has been recorded no item overlay is opened and the
\* answered map is not modified.
C40_FrozenAfterSubmission ==
  [][ submittedOnce => (~ItemOverlayOpens /\ answered' = answered) ]_vars

====
